---- MODULE Spec2Model ----
(***************************************************************************)
(* Verification model of the periodic simulation core of PolishedWorld:   *)
(* world/scripts.py (ticker callbacks), typeclasses/rooms.py (resources), *)
(* typeclasses/characters.py (gauge traits) and commands/ticker_commands  *)
(* (manual trigger, pause/resume).                                         *)
(*                                                                         *)
(* Numbers with a fractional part (rate modifiers, gauge values, rates)    *)
(* are fixed-point integers in units of 1/Scale; every factor in the code  *)
(* has one decimal and at most four factors stack, so Scale = 10^4 is      *)
(* exact.                                                                  *)
(***************************************************************************)
EXTENDS Integers, Sequences, FiniteSets, TLC

VARIABLES
    gametime,   \* custom_gametime(): [month, day, hour, minute]
    chars,      \* character id -> [location, traits, clothing, inbox]
    sessions,   \* SESSIONS.get_sessions(): sequence of puppeted character ids
    rooms,      \* room id -> [indoor, weather, room_states, resources, resource_nodes, outbox]
    effects,    \* value returned by the last get_environmental_effects call
    foods,      \* the food items, in query order
    engines,    \* the steam engines, in query order
    ret,        \* value returned by the last command/accessor call
    log,        \* logger lines written by the last callback invocation
    now,        \* real time, in units of TimeUnit seconds
    tickers,    \* TICKER_HANDLER: idstring -> [interval, next, persistent]
    last_fired, \* idstring -> time of the last scheduled firing (-1: never)
    paused,     \* caller.ndb._paused_tickers
    lastcall,   \* the most recent callback invocation since the server started:
                \* [job, how, raised, after_failure (the invocation before it was a
                \* scheduled firing of the same job that raised)]
    propagated, \* an exception left a callback towards the scheduler
    running,    \* invocations begun and not yet returned (innermost last)
    restarts    \* number of server starts so far

worldVars == <<gametime, chars, sessions, rooms, foods, engines>>
schedVars == <<now, tickers, last_fired, paused, lastcall, propagated, running, restarts>>
vars == <<gametime, chars, sessions, rooms, effects, foods, engines, ret, log,
          now, tickers, last_fired, paused, lastcall, propagated, running, restarts>>

\* ------------------------------------------------------------------------
\* Fixed point and small helpers
\* ------------------------------------------------------------------------
Scale == 10000

None == "None"

Min2(a, b) == IF a <= b THEN a ELSE b
Max2(a, b) == IF a >= b THEN a ELSE b

\* Python's `x in lst` for a list held as a sequence
InList(x, lst) == \E i \in 1..Len(lst) : lst[i] = x

\* Python's `n or d` for a number held as 0 when the attribute is unset
OrDefault(n, d) == IF n = 0 THEN d ELSE n

\* int(a / b) for b > 0: Python's int() truncates toward zero
TruncDiv(a, b) == IF a >= 0 THEN a \div b ELSE -((-a) \div b)

\* room.db.weather of a room whose weather was never set (None)
NoneWeather == <<None>>

\* ------------------------------------------------------------------------
\* Python floats (binary64) as the code's cooldown arithmetic and seasonal
\* maxima use them (typeclasses/characters.py:226, 249-254; world/scripts.py:
\* 571). A natural number is a sequence
\* of limbs, least significant first, without leading zeros; a float x >= 0
\* is the natural number x * 2^60 (every float of this computation is a
\* multiple of 2^-60).
\* ------------------------------------------------------------------------
LimbBits == 12
LimbBase == 2 ^ LimbBits
MantissaBits == 53

\* the limbs below the binary point of a float
FractionLimbs == 60 \div LimbBits

\* a value bound once: the member of a singleton set
The(s) == CHOOSE r \in s : TRUE

Zeros(n) == [i \in 1..n |-> 0]

BTrim(a) ==
    The({IF \A i \in 1..Len(x) : x[i] = 0 THEN <<>>
         ELSE SubSeq(x, 1, CHOOSE i \in 1..Len(x) :
                              x[i] # 0 /\ \A k \in (i + 1)..Len(x) : x[k] = 0) :
            x \in {a}})

RECURSIVE BFromInt(_)
BFromInt(n) ==
    The({IF k = 0 THEN <<>> ELSE <<k % LimbBase>> \o BFromInt(k \div LimbBase) : k \in {n}})

\* for a below LimbBase^2
BToInt(a) == The({(IF Len(x) > 0 THEN x[1] ELSE 0)
                     + (IF Len(x) > 1 THEN LimbBase * x[2] ELSE 0) : x \in {a}})

Limb(a, i) == IF i <= Len(a) THEN a[i] ELSE 0

\* a, b and carry are values; the limbs of a + b + carry from limb i on
RECURSIVE BAddFrom(_, _, _, _)
BAddFrom(a, b, i, carry) ==
    The({IF k > Len(a) /\ k > Len(b) THEN BFromInt(c)
         ELSE The({<<s % LimbBase>> \o BAddFrom(a, b, k + 1, s \div LimbBase) :
                      s \in {Limb(a, k) + Limb(b, k) + c}}) :
            k \in {i}, c \in {carry}})

BAdd(a, b) == The({BTrim(BAddFrom(x, y, 1, 0)) : x \in {a}, y \in {b}})

\* a - b for a >= b
RECURSIVE BSubFrom(_, _, _, _)
BSubFrom(a, b, i, borrow) ==
    The({IF k > Len(a) THEN <<>>
         ELSE The({<<(s + LimbBase) % LimbBase>>
                      \o BSubFrom(a, b, k + 1, IF s < 0 THEN 1 ELSE 0) :
                      s \in {a[k] - Limb(b, k) - c}}) :
            k \in {i}, c \in {borrow}})

BSub(a, b) == The({BTrim(BSubFrom(x, y, 1, 0)) : x \in {a}, y \in {b}})

\* a * m for a small m
RECURSIVE BMulSmallFrom(_, _, _, _)
BMulSmallFrom(a, m, i, carry) ==
    The({IF k > Len(a) THEN BFromInt(c)
         ELSE The({<<p % LimbBase>> \o BMulSmallFrom(a, m, k + 1, p \div LimbBase) :
                      p \in {a[k] * m + c}}) :
            k \in {i}, c \in {carry}})

BMulSmall(a, m) == The({BTrim(BMulSmallFrom(x, k, 1, 0)) : x \in {a}, k \in {m}})

RECURSIVE BMulFrom(_, _, _)
BMulFrom(a, b, i) ==
    The({IF k > Len(b) THEN <<>>
         ELSE BAdd(Zeros(k - 1) \o BMulSmall(a, b[k]), BMulFrom(a, b, k + 1)) :
            k \in {i}})

BMul(a, b) == The({BMulFrom(x, y, 1) : x \in {a}, y \in {b}})

\* quotient and remainder of a by a small d, from the most significant limb
RECURSIVE BDivSmallFrom(_, _, _, _)
BDivSmallFrom(a, d, i, r) ==
    The({IF k = 0 THEN [q |-> <<>>, r |-> c]
         ELSE The({[q |-> Append(rest.q, (c * LimbBase + a[k]) \div d), r |-> rest.r] :
                      rest \in {BDivSmallFrom(a, d, k - 1, (c * LimbBase + a[k]) % d)}}) :
            k \in {i}, c \in {r}})

BDivSmall(a, d) ==
    The({[q |-> BTrim(dv.q), r |-> dv.r] :
            dv \in {BDivSmallFrom(x, k, Len(x), 0) : x \in {a}, k \in {d}}})

\* -1, 0, 1 as a < b, a = b, a > b
BCmp(a, b) ==
    The({IF Len(x) < Len(y) THEN -1
         ELSE IF Len(x) > Len(y) THEN 1
         ELSE IF x = y THEN 0
         ELSE The({IF x[i] < y[i] THEN -1 ELSE 1 :
                      i \in {CHOOSE i \in 1..Len(x) :
                                x[i] # y[i] /\ \A k \in (i + 1)..Len(x) : x[k] = y[k]}}) :
            x \in {a}, y \in {b}})

\* a * 2^n and floor(a / 2^n)
BShl(a, n) ==
    The({IF x = <<>> THEN x
         ELSE BMulSmall(Zeros(k \div LimbBits) \o x, 2 ^ (k % LimbBits)) :
            x \in {a}, k \in {n}})

BShr(a, n) ==
    The({IF k \div LimbBits >= Len(x) THEN <<>>
         ELSE BDivSmall(SubSeq(x, k \div LimbBits + 1, Len(x)), 2 ^ (k % LimbBits)).q :
            x \in {a}, k \in {n}})

BBitLen(a) ==
    The({IF x = <<>> THEN 0
         ELSE LimbBits * (Len(x) - 1)
                 + (CHOOSE k \in 1..LimbBits : 2 ^ (k - 1) <= x[Len(x)] /\ x[Len(x)] < 2 ^ k) :
            x \in {a}})

\* n with its low d bits rounded away: q = floor(n / 2^d), c compares the
\* bits dropped with one half
RoundKept(q, d, c, sticky) ==
    BShl(IF c > 0 \/ (c = 0 /\ (sticky \/ q[1] % 2 = 1)) THEN BAdd(q, <<1>>) ELSE q, d)

\* the float nearest to n, ties to even; n is an exact result or, with
\* sticky, the floor of an exact result that is not a natural number
FloatRound(n, sticky) ==
    The({IF len <= MantissaBits THEN x
         ELSE The({RoundKept(q, len - MantissaBits,
                             BCmp(BMulSmall(BSub(x, BShl(q, len - MantissaBits)), 2),
                                  BShl(<<1>>, len - MantissaBits)),
                             st) :
                      q \in {BShr(x, len - MantissaBits)}}) :
            x \in {n}, len \in {BBitLen(n)}, st \in {sticky}})

FloatOfInt(k) == IF k = 0 THEN <<>> ELSE Zeros(FractionLimbs) \o BFromInt(k)
FloatHalf == Zeros(FractionLimbs - 1) \o <<LimbBase \div 2>>
FloatOne == FloatOfInt(1)

\* the float literals 0.01 and 0.20
Float001 == <<2294, 1474, 655, 3932, 40>>
Float020 == <<832, 819, 819, 819, 819>>

FloatAdd(x, y) == FloatRound(BAdd(x, y), FALSE)
FloatSub(x, y) == FloatRound(BSub(x, y), FALSE)
FloatMul(x, y) ==
    The({SubSeq(r, FractionLimbs + 1, Len(r)) : r \in {FloatRound(BMul(x, y), FALSE)}})

\* x / d for a small natural d and x = 0 or x >= 0.5
FloatDivInt(x, d) ==
    The({IF v = <<>> THEN v
         ELSE The({Tail(FloatRound(dv.q, dv.r # 0)) : dv \in {BDivSmall(<<0>> \o v, d)}}) :
            v \in {x}})

FloatMin(x, y) == The({IF BCmp(u, v) <= 0 THEN u ELSE v : u \in {x}, v \in {y}})

\* int(x) for 0 <= x < LimbBase^2
FloatToInt(x) ==
    The({IF Len(v) <= FractionLimbs THEN 0
         ELSE BToInt(SubSeq(v, FractionLimbs + 1, Len(v))) : v \in {x}})

\* ------------------------------------------------------------------------
\* Calendar (server/conf/settings.py)
\* ------------------------------------------------------------------------
SeasonNames == <<"winter", "spring", "summer", "autumn">>

SEASONS ==
    [winter |-> <<11, 0, 1, 2>>,
     spring |-> <<3, 4, 5>>,
     summer |-> <<6, 7, 8>>,
     autumn |-> <<9, 10>>]

TimeOfDayNames == <<"dawn", "morning", "noon", "afternoon", "dusk", "evening", "night">>

TIME_OF_DAY ==
    [dawn |-> <<5, 7>>, morning |-> <<7, 12>>, noon |-> <<12, 14>>,
     afternoon |-> <<14, 17>>, dusk |-> <<17, 19>>, evening |-> <<19, 22>>,
     night |-> <<22, 5>>]

\* the loop of scripts.py:99-103: first season whose month list holds month
SeasonOfMonth(month) ==
    LET hits == {i \in 1..Len(SeasonNames) : InList(month, SEASONS[SeasonNames[i]])}
    IN  IF hits = {} THEN "unknown"
        ELSE SeasonNames[CHOOSE i \in hits : \A k \in hits : i <= k]

\* the loop of scripts.py:106-110: first period that contains hour
TimeOfDayOfHour(hour) ==
    LET Holds(p) ==
            LET start == TIME_OF_DAY[p][1]
                end == TIME_OF_DAY[p][2]
            IN  (start <= hour /\ hour < end)
                \/ (start > end /\ (hour >= start \/ hour < end))
        hits == {i \in 1..Len(TimeOfDayNames) : Holds(TimeOfDayNames[i])}
    IN  IF hits = {} THEN "night"
        ELSE TimeOfDayNames[CHOOSE i \in hits : \A k \in hits : i <= k]

\* ------------------------------------------------------------------------
\* get_environmental_effects (world/scripts.py:73-187)
\* ------------------------------------------------------------------------
DefaultEffects ==
    [hunger_rate_mod |-> Scale,
     thirst_rate_mod |-> Scale,
     fatigue_rate_mod |-> Scale,
     health_drain |-> 0,
     messages |-> <<>>]

\* effects[field] *= tenths / 10
MulMod(e, field, tenths) == [e EXCEPT ![field] = (@ * tenths) \div 10]

AddMsg(e, m) == [e EXCEPT !.messages = Append(@, m)]

\* scripts.py:112-117: the weather list the calculation reads from the room
\* (a list is read as it is, None is wrapped as [None], which is NoneWeather)
ReadRoomWeather(room) == room.weather

\* scripts.py:119-129: warmth and protection from character.clothing.all()
RECURSIVE SumWarmth(_)
SumWarmth(items) ==
    IF items = <<>> THEN 0
    ELSE OrDefault(Head(items).warmth, 0) + SumWarmth(Tail(items))

ClothingWarmth(char) ==
    IF ~char.has_clothing THEN 0 ELSE SumWarmth(char.clothing)

ClothingProtection(char) ==
    [w \in {"rain", "wind", "snow"} |->
        /\ char.has_clothing
        /\ \E i \in 1..Len(char.clothing) : InList(w, char.clothing[i].weather_protection)]

\* scripts.py:133-164: the cold branch and, as its elif, the heat branch
TemperatureStep(e, season, time_of_day, warmth) ==
    IF season = "winter" \/ (time_of_day \in {"night", "evening"} /\ season = "autumn")
    THEN LET base0 == IF season = "winter" THEN 20 ELSE 10
             base_cold == IF time_of_day = "night" THEN base0 + 10 ELSE base0
             warmth_deficit == base_cold - warmth
         IN  IF warmth_deficit > 15
             THEN AddMsg([MulMod(e, "fatigue_rate_mod", 20) EXCEPT !.health_drain = 2], "freezing")
             ELSE IF warmth_deficit > 5
             THEN AddMsg([MulMod(e, "fatigue_rate_mod", 15) EXCEPT !.health_drain = 1], "very_cold")
             ELSE IF warmth_deficit > 0
             THEN AddMsg(MulMod(e, "fatigue_rate_mod", 12), "chilly")
             ELSE e
    ELSE IF season = "summer" /\ time_of_day \in {"noon", "afternoon"}
    THEN IF warmth > 30
         THEN AddMsg(MulMod(MulMod(e, "thirst_rate_mod", 20), "fatigue_rate_mod", 15), "overheating")
         ELSE IF warmth > 20
         THEN AddMsg(MulMod(MulMod(e, "thirst_rate_mod", 15), "fatigue_rate_mod", 12), "sweating")
         ELSE e
    ELSE e

\* the rain branch with `=` where the code has `*=` and `+=`
RainStep_assign(e, season, weather, protection) ==
    IF (InList("rain", weather) \/ InList("storm", weather)) /\ ~protection["rain"]
    THEN LET e1 == [e EXCEPT !.fatigue_rate_mod = (Scale * 13) \div 10]
         IN  IF season = "winter"
             THEN AddMsg([e1 EXCEPT !.health_drain = 1], "cold_rain")
             ELSE AddMsg(e1, "soaked")
    ELSE e

\* scripts.py:167-174
RainStep(e, season, weather, protection) ==
    IF (InList("rain", weather) \/ InList("storm", weather)) /\ ~protection["rain"]
    THEN LET e1 == MulMod(e, "fatigue_rate_mod", 13)
         IN  IF season = "winter"
             THEN AddMsg([e1 EXCEPT !.health_drain = @ + 1], "cold_rain")
             ELSE AddMsg(e1, "soaked")
    ELSE e

\* the snow branch with the protection test inverted
SnowStep_inverted(e, weather, protection) ==
    IF InList("snow", weather) /\ protection["snow"]
    THEN AddMsg(MulMod(e, "fatigue_rate_mod", 14), "snow_clings")
    ELSE e

\* scripts.py:176-179
SnowStep(e, weather, protection) ==
    IF InList("snow", weather) /\ ~protection["snow"]
    THEN AddMsg(MulMod(e, "fatigue_rate_mod", 14), "snow_clings")
    ELSE e

\* scripts.py:181-185
WindStep(e, season, weather, protection) ==
    IF (InList("wind", weather) \/ InList("storm", weather)) /\ ~protection["wind"]
    THEN LET e1 == MulMod(e, "fatigue_rate_mod", 12)
         IN  IF season = "winter" THEN AddMsg(e1, "wind_cuts") ELSE e1
    ELSE e

\* scripts.py:91-185: the effects for a given warmth and protection
EffectsWith(char, rms, gt, warmth, protection) ==
    IF char.location = None THEN DefaultEffects
    ELSE LET location == rms[char.location]
             season == SeasonOfMonth(gt.month)
             time_of_day == TimeOfDayOfHour(gt.hour)
             weather == ReadRoomWeather(location)
             e1 == TemperatureStep(DefaultEffects, season, time_of_day, warmth)
             e2 == RainStep(e1, season, weather, protection)
             e3 == SnowStep(e2, weather, protection)
         IN  WindStep(e3, season, weather, protection)

get_environmental_effects(char, rms, gt) ==
    EffectsWith(char, rms, gt, ClothingWarmth(char), ClothingProtection(char))

\* ------------------------------------------------------------------------
\* Gauge traits (typeclasses/characters.py:114-133, 412-418)
\* ------------------------------------------------------------------------
TraitNames == {"hunger", "thirst", "fatigue", "health"}

\* traits.add(..., trait_type="gauge", base=100, mod=0, min=0, rate=r)
NewGauge(rate) ==
    [base |-> 100 * Scale, mod |-> 0, min |-> 0, rate |-> rate, current |-> 100 * Scale]

InitialTraits ==
    [hunger |-> NewGauge(-2 * Scale),
     thirst |-> NewGauge(-3 * Scale),
     fatigue |-> NewGauge(-1 * Scale),
     health |-> NewGauge(0)]

GaugeMax(g) == g.base + g.mod

\* the bounded setter of the gauge's `current` property (traits contrib)
SetCurrent(g, value) ==
    [g EXCEPT !.current = Max2(g.min, Min2(GaugeMax(g), value))]

\* the same, with a plain attribute write in place of the bounded setter
modify_trait_unbounded(char, trait_name, amount) ==
    IF trait_name \in DOMAIN char.traits
    THEN [ok |-> TRUE,
          char |-> [char EXCEPT !.traits[trait_name].current = @ + amount]]
    ELSE [ok |-> FALSE, char |-> char]

\* Character.modify_trait: trait.current += amount; True / False
modify_trait(char, trait_name, amount) ==
    IF trait_name \in DOMAIN char.traits
    THEN [ok |-> TRUE,
          char |-> [char EXCEPT !.traits[trait_name] = SetCurrent(@, @.current + amount)]]
    ELSE [ok |-> FALSE, char |-> char]

\* ------------------------------------------------------------------------
\* Survival tick (world/scripts.py:36-70, 190-216)
\* ------------------------------------------------------------------------
\* the same, with each rate scaled in place by the modifier of the tick
apply_trait_modifiers_in_place(char, e) ==
    LET t0 == char.traits
        t1 == [t0 EXCEPT !.hunger.rate = (@ * e.hunger_rate_mod) \div Scale,
                         !.thirst.rate = (@ * e.thirst_rate_mod) \div Scale,
                         !.fatigue.rate = (@ * e.fatigue_rate_mod) \div Scale]
    IN  IF e.health_drain > 0
        THEN LET h == SetCurrent(t1.health, t1.health.current - e.health_drain * Scale)
             IN  [char EXCEPT !.traits = [t1 EXCEPT !.health = h],
                              !.inbox = IF h.current <= 0 THEN Append(@, "collapse") ELSE @]
        ELSE [char EXCEPT !.traits = t1]

\* apply_trait_modifiers: rates are set from the base rates, health is drained
apply_trait_modifiers(char, e) ==
    LET t0 == char.traits
        t1 == [t0 EXCEPT !.hunger.rate = (-2 * e.hunger_rate_mod),
                         !.thirst.rate = (-3 * e.thirst_rate_mod),
                         !.fatigue.rate = (-1 * e.fatigue_rate_mod)]
    IN  IF e.health_drain > 0
        THEN LET h == SetCurrent(t1.health, t1.health.current - e.health_drain * Scale)
             IN  [char EXCEPT !.traits = [t1 EXCEPT !.health = h],
                              !.inbox = IF h.current <= 0 THEN Append(@, "collapse") ELSE @]
        ELSE [char EXCEPT !.traits = t1]

\* one pass of the loop body of update_all_survival for one session
SurvivalOne(cs, rms, gt, cid) ==
    IF cid = None THEN cs
    ELSE LET c0 == [cs[cid] EXCEPT !.inbox = <<>>]
             e == get_environmental_effects(c0, rms, gt)
             c1 == apply_trait_modifiers(c0, e)
         IN  [cs EXCEPT ![cid] = [c1 EXCEPT !.inbox = @ \o e.messages]]

\* sessions i..Len(sess) are processed in order; an exception raised when the
\* loop reaches session failAt ends the loop there (failAt = 0: none raised)
RECURSIVE SurvivalLoop(_, _, _, _, _, _)
SurvivalLoop(cs, rms, gt, sess, i, failAt) ==
    IF i > Len(sess) \/ i = failAt THEN cs
    ELSE SurvivalLoop(SurvivalOne(cs, rms, gt, sess[i]), rms, gt, sess, i + 1, failAt)

\* what a callback's try/except leaves behind: the info line of a completed
\* run that changed something, or the error line of the except clause
CallbackLog(job, raised, count) ==
    IF raised THEN <<[level |-> "err", job |-> job]>>
    ELSE IF count > 0 THEN <<[level |-> "info", job |-> job]>>
    ELSE <<>>

\* a callback without the except clause
Escapes_reraise(raised) == raised

\* `except Exception as e: logger.log_err(...)`: the except clause of every
\* callback swallows what was raised in its try block
Escapes(raised) == FALSE

CountSessions(sess, upto) == Cardinality({i \in 1..upto : sess[i] # None})

update_all_survival(cs, rms, gt, sess, failAt) ==
    LET raised == failAt \in 1..Len(sess)
        done == IF raised THEN failAt - 1 ELSE Len(sess)
    IN  [chars |-> SurvivalLoop(cs, rms, gt, sess, 1, failAt),
         raised |-> raised,
         log |-> CallbackLog("update_all_survival", raised, CountSessions(sess, done))]

\* ------------------------------------------------------------------------
\* Resource nodes of the regeneration tick (world/scripts.py:360-401, 516-571)
\* room.db.resource_nodes: key -> [max_amount, current_amount, regen_rate,
\*                                 resource_type, base_max_amount]
\* ------------------------------------------------------------------------
NoKey == -999

\* dict.get(key, default) for a numeric entry that may be missing
DictGet(v, d) == IF v = NoKey THEN d ELSE v

\* scripts.py:383-392, one node
RegenNode(node) ==
    LET max_amount == DictGet(node.max_amount, 5)
        current == DictGet(node.current_amount, 0)
        regen_rate == DictGet(node.regen_rate, 1)
    IN  IF current < max_amount
        THEN [node EXCEPT !.current_amount = Min2(current + regen_rate, max_amount)]
        ELSE node

\* rooms taken by the filter of scripts.py:371-374, in query order
RoomOrder == <<"r1", "r2">>

RegenRoom(room) ==
    [room EXCEPT !.resource_nodes = [k \in DOMAIN @ |-> RegenNode(@[k])]]

RegenCount(room) ==
    Cardinality({k \in DOMAIN room.resource_nodes :
                    DictGet(room.resource_nodes[k].current_amount, 0)
                        < DictGet(room.resource_nodes[k].max_amount, 5)})

RECURSIVE RegenLoop(_, _, _)
RegenLoop(rms, i, failAt) ==
    IF i > Len(RoomOrder) \/ i = failAt THEN rms
    ELSE LET rid == RoomOrder[i]
         IN  RegenLoop(IF rid \in DOMAIN rms /\ rms[rid].has_resources
                       THEN [rms EXCEPT ![rid] = RegenRoom(@)] ELSE rms,
                       i + 1, failAt)

RECURSIVE SumOver(_, _)
SumOver(f, S) ==
    IF S = {} THEN 0
    ELSE LET x == CHOOSE y \in S : TRUE IN f[x] + SumOver(f, S \ {x})

regenerate_resources(rms, failAt) ==
    LET raised == failAt \in 1..Len(RoomOrder)
        done == IF raised THEN failAt - 1 ELSE Len(RoomOrder)
        counts == [i \in 1..Len(RoomOrder) |->
                     IF RoomOrder[i] \in DOMAIN rms /\ rms[RoomOrder[i]].has_resources
                     THEN RegenCount(rms[RoomOrder[i]]) ELSE 0]
    IN  [rooms |-> RegenLoop(rms, 1, failAt),
         raised |-> raised,
         log |-> CallbackLog("regenerate_resources", raised, SumOver(counts, 1..done))]

\* scripts.py:524-553, modifiers in tenths
SeasonalResources ==
    [winter |-> [berries |-> 1, herbs |-> 2, mushrooms |-> 5, roots |-> 8, game |-> 7],
     spring |-> [berries |-> 5, herbs |-> 12, mushrooms |-> 10, roots |-> 10, game |-> 12],
     summer |-> [berries |-> 15, herbs |-> 10, mushrooms |-> 7, roots |-> 8, game |-> 10],
     autumn |-> [berries |-> 8, herbs |-> 7, mushrooms |-> 15, roots |-> 12, game |-> 13]]

\* the float a literal with one decimal denotes
FloatTenths(tenths) == FloatDivInt(FloatOfInt(tenths), 10)

\* scripts.py:571: int(base_max * modifiers[resource_type]), the product a
\* float
FloatProductToInt(base_max, tenths) ==
    FloatToInt(FloatMul(FloatOfInt(base_max), FloatTenths(tenths)))

\* the base maxima of the nodes of the specifications: the default of
\* scripts.py:570, the fixtures' 10, and a large thicket
SeasonalBases == {5, 10, 90}

\* the products of those bases and the modifiers of the table, computed once
SeasonalMaxima ==
    [base_max \in SeasonalBases |->
        [tenths \in UNION {{SeasonalResources[sn][t] : t \in DOMAIN SeasonalResources[sn]} :
                              sn \in DOMAIN SeasonalResources} |->
            FloatProductToInt(base_max, tenths)]]

SeasonalMax(base_max, tenths) ==
    IF base_max \in DOMAIN SeasonalMaxima /\ tenths \in DOMAIN SeasonalMaxima[base_max]
    THEN SeasonalMaxima[base_max][tenths]
    ELSE FloatProductToInt(base_max, tenths)

\* scripts.py:566-571, one node
SeasonalNode(node, season) ==
    IF season \in DOMAIN SeasonalResources
       /\ node.resource_type \in DOMAIN SeasonalResources[season]
    THEN [node EXCEPT !.max_amount =
            SeasonalMax(DictGet(node.base_max_amount, 5),
                        SeasonalResources[season][node.resource_type])]
    ELSE node

\* scripts.py:516-571 (every room tagged has_resources)
update_seasonal_resources(rms, season) ==
    [rid \in DOMAIN rms |->
        IF rms[rid].has_resources
        THEN [rms[rid] EXCEPT !.resource_nodes = [k \in DOMAIN @ |-> SeasonalNode(@[k], season)]]
        ELSE rms[rid]]

\* ------------------------------------------------------------------------
\* Gathering (typeclasses/rooms.py:77-114, 170-185, 252-284, 406-469)
\* room.db.resources: type -> [base_amount, current, skill_required,
\*                              min_skill, tool_required, seasonal_modifier]
\* ------------------------------------------------------------------------
DefaultResources ==
    [wood |-> [base_amount |-> 5, current |-> 5, skill_required |-> "foraging",
               min_skill |-> 0, tool_required |-> None,
               seasonal_modifier |-> [spring |-> 12, summer |-> 15, autumn |-> 13, winter |-> 5]],
     stone |-> [base_amount |-> 3, current |-> 3, skill_required |-> "foraging",
                min_skill |-> 0, tool_required |-> "pickaxe",
                seasonal_modifier |-> [spring |-> 10, summer |-> 10, autumn |-> 10, winter |-> 8]],
     plants |-> [base_amount |-> 8, current |-> 8, skill_required |-> "foraging",
                 min_skill |-> 0, tool_required |-> None,
                 seasonal_modifier |-> [spring |-> 15, summer |-> 20, autumn |-> 10, winter |-> 1]],
     water |-> [base_amount |-> -1, current |-> -1, skill_required |-> None,
                min_skill |-> 0, tool_required |-> "container",
                seasonal_modifier |-> [spring |-> 12, summer |-> 8, autumn |-> 10, winter |-> 15]]]

PossibleWeather == {"clear", "cloudy", "rain", "storm", "fog", "snow", "wind"}

\* Room.get_current_weather: the weather states among the room states
get_current_weather(room) ==
    LET weather_states == room.room_states \cap PossibleWeather
    IN  IF weather_states # {} THEN weather_states ELSE {"clear"}

\* Room.get_season
RoomSeason(gt) == SeasonOfMonth(gt.month)

\* Room.get_resource_availability, in units of 1/Scale
get_resource_availability(room, resource_type, season) ==
    IF resource_type \notin DOMAIN room.resources THEN 0
    ELSE LET seasonal_mods == room.resources[resource_type].seasonal_modifier
             m0 == (Scale * (IF season \in DOMAIN seasonal_mods THEN seasonal_mods[season] ELSE 10)) \div 10
             weather == get_current_weather(room)
             m1 == IF "storm" \in weather \/ "snow" \in weather THEN (m0 * 5) \div 10
                   ELSE IF "rain" \in weather THEN (m0 * 8) \div 10
                   ELSE m0
         IN  IF resource_type = "water" /\ ("rain" \in weather \/ "snow" \in weather)
             THEN m1 * 2 ELSE m1

\* Character.get_skill_level(skill)[0] or 0
SkillLevel(gatherer, skill) ==
    IF skill \in DOMAIN gatherer.skills THEN gatherer.skills[skill] ELSE 0

Deplete_unclamped(current, actual_amount) == current - actual_amount

\* rooms.py:460-461: resource["current"] = max(0, current - actual_amount)
Deplete(current, actual_amount) == Max2(0, current - actual_amount)

\* Room.extract_resource: (success, actual_amount, skill_gain), the room, and
\* msg, the message extract_resource sends to the gatherer (None: no message)
extract_resource(room, gatherer, resource_type, amount, season) ==
    LET FailWith(m) == [success |-> FALSE, amount |-> 0, skill_gain |-> 0,
                        room |-> room, msg |-> m]
        Fail == FailWith(None)
    IN  IF resource_type \notin DOMAIN room.resources THEN Fail
        ELSE LET resource == room.resources[resource_type]
                 current == resource.current
                 skill_required == resource.skill_required
                 min_skill == resource.min_skill
                 gatherer_skill == IF skill_required # None
                                   THEN SkillLevel(gatherer, skill_required) ELSE 0
                 tool_required == resource.tool_required
             IN  IF current = 0 THEN Fail
                 ELSE IF skill_required # None /\ gatherer_skill < min_skill
                 THEN FailWith("need_skill")
                 ELSE IF tool_required # None /\ tool_required \notin gatherer.contents
                 THEN FailWith("need_tool")
                 ELSE LET availability == get_resource_availability(room, resource_type, season)
                          skill_bonus == IF skill_required # None THEN 100 + gatherer_skill ELSE 100
                          max_gather == IF current > 0 THEN Min2(amount, current) ELSE amount
                          product == max_gather * availability * skill_bonus
                          actual_amount == Max2(1, TruncDiv(product, Scale * 100))
                          skill_gain == IF skill_required # None /\ gatherer_skill < 100
                                        THEN (20 + min_skill) \div 20 ELSE 1
                      IN  [success |-> TRUE, amount |-> actual_amount, skill_gain |-> skill_gain,
                           msg |-> None,
                           room |-> IF current > 0
                                    THEN [room EXCEPT !.resources[resource_type].current =
                                                          Deplete(current, actual_amount)]
                                    ELSE room]

\* ------------------------------------------------------------------------
\* Weather tick (world/scripts.py:219-357, settings.py:132-160)
\* ------------------------------------------------------------------------
\* SEASONAL_WEATHER as cumulative hundredths, in dict order
SEASONAL_WEATHER ==
    [winter |-> << <<"clear", 20>>, <<"cloudy", 50>>, <<"snow", 80>>, <<"fog", 90>>, <<"storm", 100>> >>,
     spring |-> << <<"clear", 40>>, <<"cloudy", 70>>, <<"rain", 90>>, <<"fog", 95>>, <<"storm", 100>> >>,
     summer |-> << <<"clear", 60>>, <<"cloudy", 80>>, <<"rain", 90>>, <<"storm", 100>> >>,
     autumn |-> << <<"clear", 30>>, <<"cloudy", 60>>, <<"rain", 80>>, <<"fog", 95>>, <<"storm", 100>> >>]

DefaultWeatherProbs == << <<"clear", 50>>, <<"cloudy", 80>>, <<"rain", 100>> >>

\* scripts.py:289-303: the category the first roll selects (roll is
\* random.random() in hundredths)
RollWeatherType(season, roll) ==
    LET weather_probs == IF season \in DOMAIN SEASONAL_WEATHER
                         THEN SEASONAL_WEATHER[season] ELSE DefaultWeatherProbs
        hits == {i \in 1..Len(weather_probs) : roll <= weather_probs[i][2]}
    IN  IF hits = {} THEN "clear"
        ELSE weather_probs[CHOOSE i \in hits : \A k \in hits : i <= k][1]

\* the state list with a rolled storm kept as the one state "storm"
BuildWeather_bare_storm(weather_type, roll2) ==
    CASE weather_type = "clear" -> <<"clear">>
      [] weather_type = "cloudy" -> <<"cloudy">>
      [] weather_type = "rain" -> IF roll2 < 30 THEN <<"rain", "storm", "wind">> ELSE <<"rain">>
      [] weather_type = "fog" -> <<"fog">>
      [] weather_type = "snow" -> IF roll2 < 50 THEN <<"snow", "wind">> ELSE <<"snow">>
      [] weather_type = "storm" -> <<"storm">>
      [] OTHER -> <<>>

\* scripts.py:305-330: the weather state list of a category
BuildWeather(weather_type, roll2) ==
    CASE weather_type = "clear" -> <<"clear">>
      [] weather_type = "cloudy" -> <<"cloudy">>
      [] weather_type = "rain" -> IF roll2 < 30 THEN <<"rain", "storm", "wind">> ELSE <<"rain">>
      [] weather_type = "fog" -> <<"fog">>
      [] weather_type = "snow" -> IF roll2 < 50 THEN <<"snow", "wind">> ELSE <<"snow">>
      [] weather_type = "storm" -> <<"rain", "storm", "wind">>
      [] OTHER -> <<>>

\* generate_weather_for_season; roll and roll2 are random.random() in hundredths
generate_weather_for_season(season, roll, roll2) ==
    BuildWeather(RollWeatherType(season, roll), roll2)

\* announce_weather_change: the announcements sent to the room
announce_weather_change(old_weather, new_weather) ==
    IF InList("storm", new_weather) /\ ~InList("storm", old_weather) THEN <<"storm_rolls_in">>
    ELSE IF InList("rain", new_weather) /\ ~InList("rain", old_weather) THEN <<"rain_begins">>
    ELSE IF InList("snow", new_weather) /\ ~InList("snow", old_weather) THEN <<"snow_begins">>
    ELSE IF InList("fog", new_weather) /\ ~InList("fog", old_weather) THEN <<"fog_rolls_in">>
    ELSE IF InList("clear", new_weather) /\ ~InList("clear", old_weather)
    THEN IF InList("storm", old_weather) THEN <<"storm_passes">> ELSE <<"weather_clears">>
    ELSE <<>>

\* hasattr(room, 'set_state'): the Room typeclass defines add_room_state only
RoomHasSetState == FALSE

SkipsRoom_never(room) == FALSE

\* scripts.py:246-247: `if room.db.indoor: continue`
SkipsRoom(room) == room.indoor

\* scripts.py:245-271, one room; rolls is the pair of random numbers drawn
WeatherRoom(room, season, rolls) ==
    IF SkipsRoom(room) THEN room
    ELSE LET new_weather == generate_weather_for_season(season, rolls[1], rolls[2])
             old_weather == IF room.weather = NoneWeather THEN <<>> ELSE room.weather
         IN  IF new_weather # old_weather
             THEN [room EXCEPT
                     !.weather = new_weather,
                     !.room_states = IF RoomHasSetState
                                     THEN (@ \ PossibleWeather)
                                          \cup {new_weather[i] : i \in 1..Len(new_weather)}
                                     ELSE @,
                     !.outbox = announce_weather_change(old_weather, new_weather)]
             ELSE [room EXCEPT !.outbox = <<>>]

WeatherChanged(room, season, rolls) ==
    /\ ~SkipsRoom(room)
    /\ generate_weather_for_season(season, rolls[1], rolls[2])
         # (IF room.weather = NoneWeather THEN <<>> ELSE room.weather)

RECURSIVE WeatherLoop(_, _, _, _, _)
WeatherLoop(rms, season, rolls, i, failAt) ==
    IF i > Len(RoomOrder) \/ i = failAt THEN rms
    ELSE LET rid == RoomOrder[i]
         IN  WeatherLoop(IF rid \in DOMAIN rms
                         THEN [rms EXCEPT ![rid] = WeatherRoom(@, season, rolls[rid])] ELSE rms,
                         season, rolls, i + 1, failAt)

update_global_weather(rms, gt, rolls, failAt) ==
    LET season == SeasonOfMonth(gt.month)
        raised == failAt \in 1..Len(RoomOrder)
        done == IF raised THEN failAt - 1 ELSE Len(RoomOrder)
        counts == [i \in 1..Len(RoomOrder) |->
                     IF RoomOrder[i] \in DOMAIN rms
                        /\ WeatherChanged(rms[RoomOrder[i]], season, rolls[RoomOrder[i]])
                     THEN 1 ELSE 0]
    IN  [rooms |-> WeatherLoop(rms, season, rolls, 1, failAt),
         raised |-> raised,
         log |-> CallbackLog("update_global_weather", raised, SumOver(counts, 1..done))]

\* ------------------------------------------------------------------------
\* Food spoilage tick (world/scripts.py:404-453)
\* item: [freshness, decay_rate, desc, spoiled, holder, events]
\* ------------------------------------------------------------------------
CrossesStale_band(current_freshness, new_freshness) == new_freshness <= 50

\* scripts.py:434: the tick takes the item from fresh to stale
CrossesStale(current_freshness, new_freshness) ==
    current_freshness > 50 /\ new_freshness <= 50

\* scripts.py:441: the tick takes the item from stale to spoiled
CrossesSpoiled(current_freshness, new_freshness) ==
    current_freshness > 0 /\ new_freshness <= 0

\* scripts.py:426-447, one item; raised when item.db.desc is None at the
\* fresh -> stale transition (None has no replace)
FoodOne(item) ==
    LET current_freshness == item.freshness
        decay_rate == OrDefault(item.decay_rate, 10)
        new_freshness == Max2(0, current_freshness - decay_rate)
        aged == [item EXCEPT !.freshness = new_freshness]
    IN  IF CrossesStale(current_freshness, new_freshness)
        THEN IF item.desc = None
             THEN [item |-> aged, raised |-> TRUE, changed |-> 0]
             ELSE [item |-> [aged EXCEPT
                               !.desc = IF @ = "fresh" THEN "slightly stale" ELSE @,
                               !.events = IF item.holder THEN Append(@, "beginning_to_spoil") ELSE @],
                   raised |-> FALSE, changed |-> 1]
        ELSE IF CrossesSpoiled(current_freshness, new_freshness)
        THEN [item |-> [aged EXCEPT
                          !.desc = "spoiled",
                          !.spoiled = TRUE,
                          !.events = IF item.holder THEN Append(@, "spoiled") ELSE @],
              raised |-> FALSE, changed |-> 1]
        ELSE [item |-> aged, raised |-> FALSE, changed |-> 0]

RECURSIVE FoodLoop(_, _, _, _)
FoodLoop(items, i, failAt, count) ==
    IF i > Len(items) THEN [foods |-> items, raised |-> FALSE, count |-> count]
    ELSE IF i = failAt THEN [foods |-> items, raised |-> TRUE, count |-> count]
    ELSE LET r == FoodOne(items[i])
             items1 == [items EXCEPT ![i] = r.item]
         IN  IF r.raised THEN [foods |-> items1, raised |-> TRUE, count |-> count]
             ELSE FoodLoop(items1, i + 1, failAt, count + r.changed)

check_food_spoilage(items, failAt) ==
    LET r == FoodLoop(items, 1, failAt, 0)
    IN  [foods |-> r.foods,
         raised |-> r.raised,
         log |-> CallbackLog("check_food_spoilage", r.raised, r.count)]

\* ------------------------------------------------------------------------
\* Steam engine tick (world/scripts.py:598-649)
\* engine: [is_running, fuel_amount, fuel_consumption_rate, fuel_capacity,
\*          max_pressure, current_pressure, outbox]
\* ------------------------------------------------------------------------
\* scripts.py:628-629: int(max_pressure * (fuel_amount / fuel_capacity)), the
\* quotient and the product floats
FloatPressure(max_pressure, fuel_amount, fuel_capacity) ==
    FloatToInt(FloatMul(FloatOfInt(max_pressure),
                        FloatDivInt(FloatOfInt(fuel_amount), fuel_capacity)))

\* tank sizes and pressure ratings of the engines of the specifications
EngineCapacities == {100}
EngineRatings == {100}

\* the pressures of those engines at every fuel level, computed once
EnginePressures ==
    [max_pressure \in EngineRatings |->
        [fuel_capacity \in EngineCapacities |->
            [fuel_amount \in 0..fuel_capacity |->
                FloatPressure(max_pressure, fuel_amount, fuel_capacity)]]]

EnginePressure(max_pressure, fuel_amount, fuel_capacity) ==
    IF /\ max_pressure \in EngineRatings
       /\ fuel_capacity \in EngineCapacities
       /\ fuel_amount \in 0..fuel_capacity
    THEN EnginePressures[max_pressure][fuel_capacity][fuel_amount]
    ELSE FloatPressure(max_pressure, fuel_amount, fuel_capacity)

EngineOne(engine) ==
    IF ~engine.is_running THEN engine
    ELSE LET fuel_consumed == OrDefault(engine.fuel_consumption_rate, 1)
             current_fuel == engine.fuel_amount
         IN  IF current_fuel >= fuel_consumed
             THEN LET fuel == current_fuel - fuel_consumed
                      max_pressure == OrDefault(engine.max_pressure, 100)
                  IN  [engine EXCEPT
                         !.fuel_amount = fuel,
                         !.current_pressure = IF engine.fuel_capacity # 0
                                              THEN EnginePressure(max_pressure, fuel,
                                                                  engine.fuel_capacity)
                                              ELSE 0]
             ELSE [engine EXCEPT !.is_running = FALSE,
                                 !.current_pressure = 0,
                                 !.fuel_amount = 0,
                                 !.outbox = <<"sputters_and_dies">>]

RECURSIVE EngineLoop(_, _, _)
EngineLoop(es, i, failAt) ==
    IF i > Len(es) \/ i = failAt THEN es
    ELSE EngineLoop([es EXCEPT ![i] = EngineOne(@)], i + 1, failAt)

update_steam_engines(es, failAt) ==
    LET raised == failAt \in 1..Len(es)
        done == IF raised THEN failAt - 1 ELSE Len(es)
    IN  [engines |-> EngineLoop(es, 1, failAt),
         raised |-> raised,
         log |-> CallbackLog("update_steam_engines", raised,
                             Cardinality({i \in 1..done : es[i].is_running}))]

\* ------------------------------------------------------------------------
\* Seasonal events tick (world/scripts.py:456-513, 574-595)
\* ------------------------------------------------------------------------
\* the season whose first month is month, by the loop of scripts.py:474-479
SeasonStarting(month) ==
    LET hits == {i \in 1..Len(SeasonNames) : SEASONS[SeasonNames[i]][1] = month}
    IN  IF hits = {} THEN None
        ELSE SeasonNames[CHOOSE i \in hits : \A k \in hits : i <= k]

\* check_special_events: the (month, day) pairs that carry an event
SpecialEvents == {<<11, 14>>, <<2, 0>>, <<5, 14>>, <<8, 0>>}

\* msg(text) to the puppet of every session
Broadcast(cs, sess, text) ==
    [cid \in DOMAIN cs |->
        IF \E i \in 1..Len(sess) : sess[i] = cid
        THEN [cs[cid] EXCEPT !.inbox = Append(@, text)] ELSE cs[cid]]

\* failAt = 1: an exception is raised before anything is done
check_seasonal_events(cs, rms, gt, sess, failAt) ==
    IF failAt = 1
    THEN [chars |-> cs, rooms |-> rms, raised |-> TRUE,
          log |-> CallbackLog("check_seasonal_events", TRUE, 0)]
    ELSE LET starting == IF gt.day = 0 THEN SeasonStarting(gt.month) ELSE None
             cs0 == [cid \in DOMAIN cs |-> [cs[cid] EXCEPT !.inbox = <<>>]]
             cs1 == IF starting # None THEN Broadcast(cs0, sess, "season_change") ELSE cs0
             rms1 == IF starting # None THEN update_seasonal_resources(rms, starting) ELSE rms
             cs2 == IF <<gt.month, gt.day>> \in SpecialEvents
                    THEN Broadcast(cs1, sess, "special_event") ELSE cs1
         IN  [chars |-> cs2, rooms |-> rms1, raised |-> FALSE,
              log |-> CallbackLog("check_seasonal_events", FALSE,
                                  IF starting # None THEN 1 ELSE 0)]

\* ------------------------------------------------------------------------
\* Tickers (world/scripts.py:27-33, 653-717; commands/ticker_commands.py)
\* ------------------------------------------------------------------------
SURVIVAL_UPDATE_INTERVAL == 600
WEATHER_UPDATE_INTERVAL == 900
RESOURCE_REGEN_INTERVAL == 3600
FOOD_SPOILAGE_INTERVAL == 1800
SEASON_CHECK_INTERVAL == 21600
ENGINE_FUEL_INTERVAL == 300

\* the scheduler's clock counts in units of the shortest interval
TimeUnit == ENGINE_FUEL_INTERVAL

TickerIds == {"survival_update", "weather_update", "resource_regen",
              "food_spoilage", "seasonal_events", "engine_fuel"}

\* the order of ticker_ids in trigger_all_tickers / handle_all_tickers
TickerIdList == <<"survival_update", "weather_update", "resource_regen",
                  "food_spoilage", "seasonal_events", "engine_fuel">>

\* initialize_all_tickers: TICKER_HANDLER.clear(), then six add() calls; a
\* ticker added at time t fires first at t + interval
initialize_all_tickers(t) ==
    LET Add(interval) == [interval |-> interval \div TimeUnit,
                          next |-> t + interval \div TimeUnit,
                          persistent |-> TRUE]
    IN  [survival_update |-> Add(SURVIVAL_UPDATE_INTERVAL),
         weather_update |-> Add(WEATHER_UPDATE_INTERVAL),
         resource_regen |-> Add(RESOURCE_REGEN_INTERVAL),
         food_spoilage |-> Add(FOOD_SPOILAGE_INTERVAL),
         seasonal_events |-> Add(SEASON_CHECK_INTERVAL),
         engine_fuel |-> Add(ENGINE_FUEL_INTERVAL)]

\* the callback registered under an idstring (scripts.py:664-714, and the
\* ticker_map of trigger_ticker), run on the world w = [chars, rooms, foods,
\* engines]; inp = [failAt, rolls] are the fault and the random numbers drawn
RunCallback(id, w, gt, sess, inp) ==
    CASE id = "survival_update" ->
            LET r == update_all_survival(w.chars, w.rooms, gt, sess, inp.failAt)
            IN  [world |-> [w EXCEPT !.chars = r.chars],
                 raised |-> r.raised, escaped |-> Escapes(r.raised), log |-> r.log]
      [] id = "weather_update" ->
            LET r == update_global_weather(w.rooms, gt, inp.rolls, inp.failAt)
            IN  [world |-> [w EXCEPT !.rooms = r.rooms],
                 raised |-> r.raised, escaped |-> Escapes(r.raised), log |-> r.log]
      [] id = "resource_regen" ->
            LET r == regenerate_resources(w.rooms, inp.failAt)
            IN  [world |-> [w EXCEPT !.rooms = r.rooms],
                 raised |-> r.raised, escaped |-> Escapes(r.raised), log |-> r.log]
      [] id = "food_spoilage" ->
            LET r == check_food_spoilage(w.foods, inp.failAt)
            IN  [world |-> [w EXCEPT !.foods = r.foods],
                 raised |-> r.raised, escaped |-> Escapes(r.raised), log |-> r.log]
      [] id = "seasonal_events" ->
            LET r == check_seasonal_events(w.chars, w.rooms, gt, sess, inp.failAt)
            IN  [world |-> [w EXCEPT !.chars = r.chars, !.rooms = r.rooms],
                 raised |-> r.raised, escaped |-> Escapes(r.raised), log |-> r.log]
      [] id = "engine_fuel" ->
            LET r == update_steam_engines(w.engines, inp.failAt)
            IN  [world |-> [w EXCEPT !.engines = r.engines],
                 raised |-> r.raised, escaped |-> Escapes(r.raised), log |-> r.log]

TheWorld == [chars |-> chars, rooms |-> rooms, foods |-> foods, engines |-> engines]

SetWorld(w) ==
    /\ chars' = w.chars
    /\ rooms' = w.rooms
    /\ foods' = w.foods
    /\ engines' = w.engines

\* ------------------------------------------------------------------------
\* Objects as they are created
\* ------------------------------------------------------------------------
\* Character.at_object_creation (skills start at 0, nothing carried or worn)
NewCharacter(location, has_clothing, clothing) ==
    [location |-> location,
     traits |-> InitialTraits,
     has_clothing |-> has_clothing,
     clothing |-> clothing,
     skills |-> [foraging |-> 0],
     contents |-> {},
     inbox |-> <<>>]

\* Room.at_object_creation, then the builder's settings of indoor, weather and
\* resource nodes
NewRoom(indoor, weather, has_resources, resource_nodes) ==
    [indoor |-> indoor,
     weather |-> weather,
     room_states |-> {"clear"},
     resources |-> DefaultResources,
     has_resources |-> has_resources,
     resource_nodes |-> resource_nodes,
     outbox |-> <<>>]

NoNodes == [k \in {} |-> 0]

NeverFired == -1

NoCall == [job |-> None, how |-> None, raised |-> FALSE, after_failure |-> FALSE]

NoRet == [op |-> None]

\* the game clock after one more TimeUnit of real time (TIME_FACTOR = 4:
\* 300 s of real time are 20 game minutes; 30-day months, 12-month years)
TIME_FACTOR == 4

AdvanceGameTime(gt) ==
    LET minute == gt.minute + (TimeUnit * TIME_FACTOR) \div 60
        hour == gt.hour + minute \div 60
        day == gt.day + hour \div 24
        month == gt.month + day \div 30
    IN  [minute |-> minute % 60, hour |-> hour % 24, day |-> day % 30, month |-> month % 12]

\* ------------------------------------------------------------------------
\* Environmental effects as a function of its inputs
\* ------------------------------------------------------------------------
\* hours, one or two in every period of TIME_OF_DAY
EnvHours == {2, 5, 9, 12, 15, 18, 20, 22}

\* weather lists: the seven the generator builds, an unset weather, and
\* builder-set lists
EnvWeathers ==
    {<<"clear">>, <<"cloudy">>, <<"fog">>, <<"rain">>, <<"snow">>,
     <<"rain", "storm", "wind">>, <<"snow", "wind">>,
     NoneWeather, <<"storm">>, <<"wind">>, <<"snow", "storm", "wind">>}

\* worn items [warmth, weather_protection]
Wardrobe ==
    << [warmth |-> 8, weather_protection |-> <<>>],
       [warmth |-> 12, weather_protection |-> <<"rain">>],
       [warmth |-> 20, weather_protection |-> <<"snow", "wind">>],
       [warmth |-> 25, weather_protection |-> <<"rain", "wind", "snow">>],
       [warmth |-> 0, weather_protection |-> <<"wind">>],
       [warmth |-> 0, weather_protection |-> <<"snow">>] >>

\* at most two worn items
Outfits ==
    {<<>>} \cup {<<Wardrobe[i]>> : i \in 1..Len(Wardrobe)}
           \cup {<<Wardrobe[p[1]], Wardrobe[p[2]]>> :
                    p \in {q \in (1..Len(Wardrobe)) \X (1..Len(Wardrobe)) : q[1] < q[2]}}

SchedIdle ==
    /\ now = 0
    /\ tickers = initialize_all_tickers(0)
    /\ last_fired = [j \in TickerIds |-> NeverFired]
    /\ paused = {}
    /\ lastcall = NoCall
    /\ propagated = FALSE
    /\ running = <<>>
    /\ restarts = 0

EnvInit ==
    /\ \E month \in 0..11, hour \in EnvHours :
          gametime = [month |-> month, day |-> 3, hour |-> hour, minute |-> 0]
    /\ \E outfit \in Outfits, hc \in BOOLEAN :
          /\ (~hc => outfit = <<>>)
          /\ chars = [c \in {"c1"} |-> NewCharacter("r1", hc, outfit)]
    /\ sessions = <<"c1">>
    /\ \E indoor \in BOOLEAN, weather \in EnvWeathers :
          rooms = [r \in {"r1"} |-> NewRoom(indoor, weather, FALSE, NoNodes)]
    /\ foods = <<>>
    /\ engines = <<>>
    /\ effects = DefaultEffects
    /\ ret = NoRet
    /\ log = <<>>
    /\ SchedIdle

\* a caller (the survival tick, `ticker debug`) computes the effects
ComputeEffects(cid) ==
    /\ effects' = get_environmental_effects(chars[cid], rooms, gametime)
    /\ ret' = [op |-> "get_environmental_effects", cid |-> cid]
    /\ UNCHANGED <<worldVars, log, schedVars>>

EnvNext == \E cid \in DOMAIN chars : ComputeEffects(cid)

SpecEnv == EnvInit /\ [][EnvNext]_vars

\* the inputs of the last computation
EnvComputed == ret.op = "get_environmental_effects"
EnvChar == chars["c1"]
EnvRoom == rooms["r1"]
EnvSeason == SeasonOfMonth(gametime.month)
EnvTimeOfDay == TimeOfDayOfHour(gametime.hour)
EnvWarmth == ClothingWarmth(EnvChar)
EnvProtected(w) == ClothingProtection(EnvChar)[w]
EnvHas(w) == InList(w, EnvRoom.weather)

\* C6: for a character in an indoor room the computed effects are the
\* defaults (all three rate modifiers 1.0, health drain 0, no messages),
\* whatever the season, time of day, weather, warmth and protection.
C6_IndoorShortCircuit ==
    (EnvComputed /\ EnvRoom.indoor) => effects = DefaultEffects

\* the branches of the calculation, each from the inputs alone
ColdActive ==
    EnvSeason = "winter" \/ (EnvSeason = "autumn" /\ EnvTimeOfDay \in {"night", "evening"})
ColdDeficit ==
    (IF EnvSeason = "winter" THEN 20 ELSE 10) + (IF EnvTimeOfDay = "night" THEN 10 ELSE 0)
        - EnvWarmth
ColdTier ==
    IF ~ColdActive THEN 0
    ELSE IF ColdDeficit > 15 THEN 3 ELSE IF ColdDeficit > 5 THEN 2
    ELSE IF ColdDeficit > 0 THEN 1 ELSE 0
HeatTier ==
    IF ColdActive \/ EnvSeason # "summer" \/ EnvTimeOfDay \notin {"noon", "afternoon"} THEN 0
    ELSE IF EnvWarmth > 30 THEN 2 ELSE IF EnvWarmth > 20 THEN 1 ELSE 0
RainActive == (EnvHas("rain") \/ EnvHas("storm")) /\ ~EnvProtected("rain")
SnowActive == EnvHas("snow") /\ ~EnvProtected("snow")
WindActive == (EnvHas("wind") \/ EnvHas("storm")) /\ ~EnvProtected("wind")

\* factors in tenths
ColdFactor == CASE ColdTier = 3 -> 20 [] ColdTier = 2 -> 15 [] ColdTier = 1 -> 12 [] OTHER -> 10
HeatFatigueFactor == CASE HeatTier = 2 -> 15 [] HeatTier = 1 -> 12 [] OTHER -> 10
HeatThirstFactor == CASE HeatTier = 2 -> 20 [] HeatTier = 1 -> 15 [] OTHER -> 10
RainFactor == IF RainActive THEN 13 ELSE 10
SnowFactor == IF SnowActive THEN 14 ELSE 10
WindFactor == IF WindActive THEN 12 ELSE 10
ColdDrain == CASE ColdTier = 3 -> 2 [] ColdTier = 2 -> 1 [] OTHER -> 0
RainDrain == IF RainActive /\ EnvSeason = "winter" THEN 1 ELSE 0

Times(x, tenths) == (x * tenths) \div 10

\* C7: every computed result has the three rate modifiers >= 1.0 and the
\* health drain >= 0; the fatigue and thirst modifiers are the products of
\* the factors of the active branches and the health drain is the sum of
\* their drains (a branch is active when the code's condition for it holds).
C7_ModifiersStack ==
    EnvComputed =>
        /\ effects.hunger_rate_mod >= Scale
        /\ effects.thirst_rate_mod >= Scale
        /\ effects.fatigue_rate_mod >= Scale
        /\ effects.health_drain >= 0
        /\ effects.fatigue_rate_mod =
              Times(Times(Times(Times(Times(Scale, ColdFactor), HeatFatigueFactor),
                                RainFactor), SnowFactor), WindFactor)
        /\ effects.thirst_rate_mod = Times(Scale, HeatThirstFactor)
        /\ effects.health_drain = ColdDrain + RainDrain

\* four branches stack: freezing, cold rain, snow and wind
C7_Witness ==
    /\ EnvComputed
    /\ ColdTier = 3 /\ RainActive /\ SnowActive /\ WindActive
    /\ effects.fatigue_rate_mod = 43680
    /\ effects.health_drain = 3

ScenarioB ==
    /\ EnvSeason = "winter"
    /\ EnvTimeOfDay = "night"
    /\ ~EnvRoom.indoor
    /\ EnvRoom.weather = <<"snow", "wind">>
    /\ EnvWarmth = 0
    /\ \A w \in {"rain", "wind", "snow"} : ~EnvProtected(w)

\* C8 as stated: in scenario B the fatigue modifier is 2.0, the health
\* drain is at least 2 and the messages contain "freezing".
C8_ScenarioB_AsStated ==
    (EnvComputed /\ ScenarioB) =>
        /\ effects.fatigue_rate_mod = 2 * Scale
        /\ effects.health_drain >= 2
        /\ InList("freezing", effects.messages)

\* C8 (amended): in scenario B the fatigue modifier is 3.36 = 2.0 * 1.4 * 1.2
\* (freezing, snow, wind), the health drain is at least 2 and the messages
\* contain "freezing".
C8_ScenarioB ==
    (EnvComputed /\ ScenarioB) =>
        /\ effects.fatigue_rate_mod = 33600
        /\ effects.health_drain >= 2
        /\ InList("freezing", effects.messages)

C8_Witness ==
    /\ EnvComputed
    /\ ScenarioB
    /\ effects.messages = <<"freezing", "snow_clings", "wind_cuts">>

\* ------------------------------------------------------------------------
\* Gauges under survival ticks, modify_trait and assignments to current
\* ------------------------------------------------------------------------
\* deltas of eating, drinking, resting and damage, in and out of range
GaugeAmounts == {-2000 * Scale, -60 * Scale, 60 * Scale, 1000 * Scale}

\* values assigned to `current`, below min, inside and above max
GaugeValues == {-5 * Scale, 50 * Scale, 150 * Scale}

\* the traits the commands modify (one of them not a trait of the character)
\* and the traits assigned to
ModifiedTraits == {"hunger", "health", "stamina"}
AssignedTraits == {"thirst", "fatigue"}

GaugeInit ==
    /\ \E gt \in {[month |-> 0, day |-> 3, hour |-> 2, minute |-> 0],
                  [month |-> 7, day |-> 3, hour |-> 12, minute |-> 0]} : gametime = gt
    /\ chars = [c \in {"c1"} |-> NewCharacter("r1", FALSE, <<>>)]
    /\ sessions = <<"c1">>
    /\ \E weather \in {<<"clear">>, <<"rain", "storm", "wind">>} :
          rooms = [r \in {"r1"} |-> NewRoom(FALSE, weather, FALSE, NoNodes)]
    /\ foods = <<>>
    /\ engines = <<>>
    /\ effects = DefaultEffects
    /\ ret = NoRet
    /\ log = <<>>
    /\ SchedIdle

\* a command (eat, drink, rest, damage) calls character.modify_trait
ModifyTrait(cid, trait_name, amount) ==
    \E r \in {modify_trait(chars[cid], trait_name, amount)} :
        /\ chars' = [chars EXCEPT ![cid] = r.char]
        /\ ret' = [op |-> "modify_trait", cid |-> cid, name |-> trait_name,
                   amount |-> amount, ok |-> r.ok,
                   before |-> IF trait_name \in TraitNames
                              THEN chars[cid].traits[trait_name].current ELSE 0]
        /\ UNCHANGED <<gametime, sessions, rooms, foods, engines, effects, log, schedVars>>

\* character.traits.<name>.current = value
AssignCurrent(cid, trait_name, value) ==
    /\ chars' = [chars EXCEPT ![cid].traits[trait_name] = SetCurrent(@, value)]
    /\ ret' = [op |-> "assign", cid |-> cid, name |-> trait_name, value |-> value]
    /\ UNCHANGED <<gametime, sessions, rooms, foods, engines, effects, log, schedVars>>

\* the survival ticker calls update_all_survival
SurvivalTick(failAt) ==
    \E r \in {RunCallback("survival_update", TheWorld, gametime, sessions,
                            [failAt |-> failAt, rolls |-> <<>>])} :
        /\ SetWorld(r.world)
        /\ log' = r.log
        /\ ret' = [op |-> "survival_tick", raised |-> r.raised]
        /\ UNCHANGED <<gametime, sessions, effects, schedVars>>

GaugeNext ==
    \/ \E cid \in DOMAIN chars, n \in ModifiedTraits, a \in GaugeAmounts :
          ModifyTrait(cid, n, a)
    \/ \E cid \in DOMAIN chars, n \in AssignedTraits, v \in GaugeValues :
          AssignCurrent(cid, n, v)
    \/ \E failAt \in 0..1 : SurvivalTick(failAt)

SpecGauge == GaugeInit /\ [][GaugeNext]_vars

GaugeInRange(g) == g.min <= g.current /\ g.current <= GaugeMax(g)

\* C1: whatever survival ticks, modify_trait calls and assignments to current
\* have happened, every gauge of every character has min <= current <= max;
\* a modify_trait on an existing trait returns True and leaves the trait at
\* the old value plus the amount, clamped into [min, max].
C1_GaugesStayInRange ==
    /\ \A cid \in DOMAIN chars : \A n \in TraitNames :
          GaugeInRange(chars[cid].traits[n])
    /\ (ret.op = "modify_trait" /\ ret.name \in TraitNames) =>
          LET g == chars[ret.cid].traits[ret.name]
          IN  /\ ret.ok
              /\ g.current = Max2(g.min, Min2(GaugeMax(g), ret.before + ret.amount))

\* an out-of-range negative delta has been clamped at min on a character whose
\* health the survival tick has drained
C1_Witness ==
    /\ ret.op = "modify_trait"
    /\ ret.name = "hunger"
    /\ ret.ok
    /\ ret.before + ret.amount < 0
    /\ chars["c1"].traits.hunger.current = 0
    /\ chars["c1"].traits.health.current \in {97 * Scale, 98 * Scale}

\* ------------------------------------------------------------------------
\* Resource nodes under regeneration ticks, seasonal recomputation, gathering
\* ------------------------------------------------------------------------
\* game days that pass in one behaviour
MaxDays == 2

\* a berry bush as in the fixtures of the tests (base_max_amount 10)
BerryNode(current) ==
    [resource_type |-> "berries", max_amount |-> 10, current_amount |-> current,
     regen_rate |-> 3, base_max_amount |-> 10]

\* a well: current_amount -1 (unlimited), max_amount -1 or not set
WellNode(max_amount) ==
    [resource_type |-> "water", max_amount |-> max_amount, current_amount |-> -1,
     regen_rate |-> 1, base_max_amount |-> NoKey]

\* the last days of a month before a season starts (10, 2, 5, 8) or of one
\* inside a season (0)
ResInit ==
    /\ \E month \in {10, 2, 5, 8, 0}, day \in {28, 29} :
          gametime = [month |-> month, day |-> day, hour |-> 0, minute |-> 0]
    /\ chars = [c \in {"c1"} |->
                  [NewCharacter("r1", FALSE, <<>>) EXCEPT !.contents = {"container"}]]
    /\ sessions = <<"c1">>
    /\ \E current \in {0, 5, 10}, wmax \in {-1, NoKey} :
          rooms = [r \in {"r1", "r2"} |->
                     IF r = "r1"
                     THEN NewRoom(FALSE, <<"clear">>, TRUE,
                                  [k \in {"bush", "well"} |->
                                      IF k = "bush" THEN BerryNode(current)
                                      ELSE WellNode(wmax)])
                     ELSE NewRoom(TRUE, NoneWeather, FALSE, NoNodes)]
    /\ foods = <<>>
    /\ engines = <<>>
    /\ effects = DefaultEffects
    /\ ret = NoRet
    /\ log = <<>>
    /\ SchedIdle

\* the resource ticker calls regenerate_resources
RegenTick(failAt) ==
    \E r \in {RunCallback("resource_regen", TheWorld, gametime, sessions,
                            [failAt |-> failAt, rolls |-> <<>>])} :
        /\ SetWorld(r.world)
        /\ log' = r.log
        /\ ret' = [op |-> "regen", raised |-> r.raised, before |-> rooms]
        /\ UNCHANGED <<gametime, sessions, effects, schedVars>>

\* the seasonal ticker calls check_seasonal_events
SeasonalTick(failAt) ==
    \E r \in {RunCallback("seasonal_events", TheWorld, gametime, sessions,
                            [failAt |-> failAt, rolls |-> <<>>])} :
        /\ SetWorld(r.world)
        /\ log' = r.log
        /\ ret' = [op |-> "seasonal", raised |-> r.raised, before |-> rooms]
        /\ UNCHANGED <<gametime, sessions, effects, schedVars>>

\* a gather command calls room.extract_resource
Gather(cid, resource_type, amount) ==
    \E rid \in {chars[cid].location} :
    \E r \in {extract_resource(rooms[rid], chars[cid], resource_type, amount,
                               RoomSeason(gametime))} :
        /\ rooms' = [rooms EXCEPT ![rid] = r.room]
        /\ ret' = [op |-> "extract", success |-> r.success, amount |-> r.amount,
                   resource_type |-> resource_type, before |-> rooms]
        /\ UNCHANGED <<gametime, chars, sessions, foods, engines, effects, log, schedVars>>

\* one game day (SEASON_CHECK_INTERVAL of real time) passes
AdvanceDay ==
    /\ now < MaxDays * (SEASON_CHECK_INTERVAL \div TimeUnit)
    /\ now' = now + SEASON_CHECK_INTERVAL \div TimeUnit
    /\ gametime' = [gametime EXCEPT
                      !.day = (@ + 1) % 30,
                      !.month = IF gametime.day = 29 THEN (@ + 1) % 12 ELSE @]
    /\ ret' = [op |-> "advance"]
    /\ UNCHANGED <<chars, sessions, rooms, foods, engines, effects, log,
                   tickers, last_fired, paused, lastcall, propagated, running, restarts>>

ResNext ==
    \/ \E failAt \in 0..2 : RegenTick(failAt)
    \/ \E failAt \in 0..1 : SeasonalTick(failAt)
    \/ \E cid \in DOMAIN chars, t \in {"wood", "water", "gold"}, a \in {1, 3} :
          Gather(cid, t, a)
    \/ AdvanceDay

SpecRes == ResInit /\ [][ResNext]_vars

\* the nodes the regeneration tick visits
RegenRooms == {rid \in DOMAIN rooms : rooms[rid].has_resources}
NodeCurrent(node) == DictGet(node.current_amount, 0)
NodeMax(node) == DictGet(node.max_amount, 5)
NodeRegen(node) == DictGet(node.regen_rate, 1)

\* C9: when a regeneration tick has completed, every finite node has
\* current <= max; a node that was below max has gained exactly
\* min(regen_rate, max - current) and a node that was at max is unchanged.
C9_RegenWithinMax ==
    (ret.op = "regen" /\ ~ret.raised) =>
        \A rid \in RegenRooms : \A k \in DOMAIN rooms[rid].resource_nodes :
            LET old == ret.before[rid].resource_nodes[k]
                new == rooms[rid].resource_nodes[k]
            IN  NodeCurrent(old) # -1 =>
                  /\ NodeCurrent(new) <= NodeMax(new)
                  /\ NodeCurrent(old) < NodeMax(old) =>
                        NodeCurrent(new) = NodeCurrent(old)
                            + Min2(NodeRegen(old), NodeMax(old) - NodeCurrent(old))
                  /\ NodeCurrent(old) = NodeMax(old) => NodeCurrent(new) = NodeCurrent(old)

\* C10: a node whose current is -1 keeps -1 through a regeneration tick and
\* through a successful extraction.
C10_UnlimitedNeverMutated ==
    /\ ret.op = "regen" =>
          \A rid \in RegenRooms : \A k \in DOMAIN rooms[rid].resource_nodes :
              NodeCurrent(ret.before[rid].resource_nodes[k]) = -1 =>
                  NodeCurrent(rooms[rid].resource_nodes[k]) = -1
    /\ (ret.op = "extract" /\ ret.success) =>
          \A rid \in DOMAIN rooms :
              ret.before[rid].resources[ret.resource_type].current = -1 =>
                  rooms[rid].resources[ret.resource_type].current = -1

\* ------------------------------------------------------------------------
\* The six tickers, the ticker commands and server restarts
\* ------------------------------------------------------------------------
\* real time covered, in TimeUnits, and restarts in one behaviour
MaxTime == 3
MaxRestarts == 1

\* the exception raised at the first entity of the loop, or none
FailPoints == 0..1

\* random numbers drawn by the weather tick in each room
RollChoices == {[r \in {"r1", "r2"} |-> <<10, 10>>]}

TickInputs == {[failAt |-> f, rolls |-> r] : f \in FailPoints, r \in RollChoices}

SchedFood ==
    [freshness |-> 0, decay_rate |-> 30, desc |-> "spoiled", spoiled |-> TRUE,
     holder |-> TRUE, events |-> <<>>]

SchedEngine ==
    [is_running |-> TRUE, fuel_amount |-> 5, fuel_consumption_rate |-> 5,
     fuel_capacity |-> 100, max_pressure |-> 100, current_pressure |-> 5,
     outbox |-> <<>>]

SchedInit ==
    /\ gametime = [month |-> 4, day |-> 3, hour |-> 9, minute |-> 0]
    /\ chars = [c \in {"c1"} |-> NewCharacter("r1", FALSE, <<>>)]
    /\ sessions = <<"c1">>
    /\ rooms = [r \in {"r1", "r2"} |->
                  IF r = "r1"
                  THEN NewRoom(FALSE, <<"clear">>, TRUE, [k \in {"bush"} |-> BerryNode(10)])
                  ELSE NewRoom(TRUE, NoneWeather, FALSE, NoNodes)]
    /\ foods = <<SchedFood>>
    /\ engines = <<SchedEngine>>
    /\ effects = DefaultEffects
    /\ ret = NoRet
    /\ log = <<>>
    /\ SchedIdle

\* the next point of the ticker's grid after time t
NextAfter(tk, t) == tk.next + tk.interval * ((t - tk.next) \div tk.interval + 1)

\* a ticker whose callback let an exception out stops being called
AfterFiring(tks, j, t, escaped) ==
    IF escaped THEN [k \in DOMAIN tks \ {j} |-> tks[k]]
    ELSE [tks EXCEPT ![j].next = NextAfter(tks[j], t)]

\* the ticker handler calls the callback registered under idstring j
Fire(j, inp) ==
    /\ running = <<>>
    /\ j \in DOMAIN tickers
    /\ tickers[j].next <= now
    /\ \E r \in {RunCallback(j, TheWorld, gametime, sessions, inp)} :
           /\ SetWorld(r.world)
           /\ log' = r.log
           /\ propagated' = (propagated \/ r.escaped)
           /\ tickers' = AfterFiring(tickers, j, now, r.escaped)
           /\ last_fired' = [last_fired EXCEPT ![j] = now]
           /\ lastcall' = [job |-> j, how |-> "scheduled", raised |-> r.raised,
                           after_failure |-> (lastcall.job = j /\ lastcall.raised
                                              /\ lastcall.how = "scheduled")]
    /\ UNCHANGED <<gametime, sessions, effects, ret, now, paused, running, restarts>>

\* `ticker trigger <id>`: trigger_ticker
Trigger(id, inp) ==
    /\ running = <<>>
    /\ IF id \in TickerIds
       THEN \E r \in {RunCallback(id, TheWorld, gametime, sessions, inp)} :
                /\ SetWorld(r.world)
                /\ log' = r.log
                /\ lastcall' = [job |-> id, how |-> "manual", raised |-> r.raised,
                                after_failure |-> (lastcall.job = id /\ lastcall.raised
                                                   /\ lastcall.how = "scheduled")]
       ELSE /\ lastcall' = [NoCall EXCEPT !.job = id, !.how = "unknown"]
            /\ UNCHANGED <<worldVars, log>>
    /\ UNCHANGED <<gametime, sessions, effects, ret, now, tickers, last_fired, paused,
                   propagated, running, restarts>>

\* the input of the callback at position k of TickerIdList when job f raises
AllInput(f, k, rolls) == [failAt |-> IF k = f THEN 1 ELSE 0, rolls |-> rolls]

\* `ticker trigger all`: trigger_all_tickers calls the six callbacks in the
\* order of its list, each on the world the one before has left
TriggerAll(f, rolls) ==
    /\ running = <<>>
    /\ \E r1 \in {RunCallback(TickerIdList[1], TheWorld, gametime, sessions,
                               AllInput(f, 1, rolls))} :
       \E r2 \in {RunCallback(TickerIdList[2], r1.world, gametime, sessions,
                               AllInput(f, 2, rolls))} :
       \E r3 \in {RunCallback(TickerIdList[3], r2.world, gametime, sessions,
                               AllInput(f, 3, rolls))} :
       \E r4 \in {RunCallback(TickerIdList[4], r3.world, gametime, sessions,
                               AllInput(f, 4, rolls))} :
       \E r5 \in {RunCallback(TickerIdList[5], r4.world, gametime, sessions,
                               AllInput(f, 5, rolls))} :
       \E r6 \in {RunCallback(TickerIdList[6], r5.world, gametime, sessions,
                               AllInput(f, 6, rolls))} :
           /\ SetWorld(r6.world)
           /\ log' = r1.log \o r2.log \o r3.log \o r4.log \o r5.log \o r6.log
           /\ lastcall' = [job |-> "all", how |-> "manual",
                           raised |-> (r1.raised \/ r2.raised \/ r3.raised
                                       \/ r4.raised \/ r5.raised \/ r6.raised),
                           after_failure |-> FALSE]
    /\ UNCHANGED <<gametime, sessions, effects, ret, now, tickers, last_fired, paused,
                   propagated, running, restarts>>

\* `ticker pause <id>` / `ticker resume <id>`: handle_single_ticker
Pause(id) ==
    /\ running = <<>>
    /\ paused' = paused \cup {id}
    /\ UNCHANGED <<worldVars, effects, ret, log, now, tickers, last_fired, lastcall,
                   propagated, running, restarts>>

Resume(id) ==
    /\ running = <<>>
    /\ paused' = paused \ {id}
    /\ UNCHANGED <<worldVars, effects, ret, log, now, tickers, last_fired, lastcall,
                   propagated, running, restarts>>

\* `ticker pause all` / `ticker resume all`: handle_all_tickers
PauseAll ==
    /\ running = <<>>
    /\ paused' = paused \cup TickerIds
    /\ UNCHANGED <<worldVars, effects, ret, log, now, tickers, last_fired, lastcall,
                   propagated, running, restarts>>

ResumeAll ==
    /\ running = <<>>
    /\ paused' = paused \ TickerIds
    /\ UNCHANGED <<worldVars, effects, ret, log, now, tickers, last_fired, lastcall,
                   propagated, running, restarts>>

\* the server stops and starts: non-persistent attributes are gone, and
\* at_server_start calls initialize_all_tickers
Restart ==
    /\ running = <<>>
    /\ restarts < MaxRestarts
    /\ restarts' = restarts + 1
    /\ tickers' = initialize_all_tickers(now)
    /\ paused' = {}
    /\ lastcall' = NoCall
    /\ UNCHANGED <<worldVars, effects, ret, log, now, last_fired, propagated, running>>

\* real time passes while no ticker is due
Advance ==
    /\ running = <<>>
    /\ now < MaxTime
    /\ \A j \in DOMAIN tickers : tickers[j].next > now
    /\ now' = now + 1
    /\ gametime' = AdvanceGameTime(gametime)
    /\ UNCHANGED <<chars, sessions, rooms, foods, engines, effects, ret, log,
                   tickers, last_fired, paused, lastcall, propagated, running, restarts>>

\* the position in TickerIdList of the job that raises under `ticker trigger
\* all`: none, the first, the last
FailingJobs == {0, 1, Len(TickerIdList)}

\* the ids given to the pause and resume commands
PauseIds == {"engine_fuel"}

SchedNext ==
    \/ \E j \in TickerIds, inp \in TickInputs : Fire(j, inp)
    \/ \E id \in TickerIds \cup {"nosuch"}, inp \in TickInputs : Trigger(id, inp)
    \/ \E f \in FailingJobs, rolls \in RollChoices : TriggerAll(f, rolls)
    \/ \E id \in PauseIds : Pause(id)
    \/ \E id \in PauseIds : Resume(id)
    \/ PauseAll
    \/ ResumeAll
    \/ Restart
    \/ Advance

SpecSched == SchedInit /\ [][SchedNext]_vars

\* the callback registered under each idstring, as named in its log lines
CallbackName ==
    [survival_update |-> "update_all_survival",
     weather_update |-> "update_global_weather",
     resource_regen |-> "regenerate_resources",
     food_spoilage |-> "check_food_spoilage",
     seasonal_events |-> "check_seasonal_events",
     engine_fuel |-> "update_steam_engines"]

LoggedError(job) ==
    \E i \in DOMAIN log : log[i].level = "err" /\ log[i].job = CallbackName[job]

\* C2: an exception raised in a callback is logged for that job and goes no
\* further: nothing propagates to the ticker handler, all six tickers stay
\* registered and none is left behind the clock, and a scheduled firing that
\* raised is followed by the next firing one interval later.
C2_ExceptionsContained ==
    /\ ~propagated
    /\ DOMAIN tickers = TickerIds
    /\ \A j \in DOMAIN tickers : tickers[j].next >= now /\ tickers[j].persistent
    /\ (lastcall.raised /\ lastcall.job \in TickerIds) => LoggedError(lastcall.job)
    /\ (lastcall.raised /\ lastcall.job = "all") => \E j \in TickerIds : LoggedError(j)
    /\ (lastcall.raised /\ lastcall.how = "scheduled") =>
          tickers[lastcall.job].next
              = last_fired[lastcall.job] + tickers[lastcall.job].interval

\* the engine ticker has fired on schedule right after a firing of it that
\* raised, with every ticker still registered
C2_Witness ==
    /\ lastcall.job = "engine_fuel"
    /\ lastcall.how = "scheduled"
    /\ lastcall.after_failure
    /\ last_fired["engine_fuel"] = 3
    /\ DOMAIN tickers = TickerIds
    /\ ~propagated

\* C4: a job that has been paused and not resumed does not fire.
C4_PausedJobDoesNotFire ==
    [][\A j \in paused \cap TickerIds : last_fired'[j] = last_fired[j]]_vars

\* C5: also across a restart, the next fire time of a job that has fired is
\* its last fire time plus its interval.
C5_NextFireFromLastFire ==
    \A j \in DOMAIN tickers :
        last_fired[j] # NeverFired => tickers[j].next = last_fired[j] + tickers[j].interval

\* ------------------------------------------------------------------------
\* Invocations in progress: a callback takes time between its start and its
\* return
\* ------------------------------------------------------------------------
\* real time covered, in TimeUnits
MaxRunTime == 3

\* a callback that hands control back before its loop is done
Yields_midrun(id) == TRUE

\* the callbacks are plain functions: no yield, no deferred, no thread; the
\* call of trigger_ticker returns when the callback has returned
Yields(id) == FALSE

\* the event loop takes the next timer or command when the handler it called
\* has returned or has handed control back
ReactorFree == running = <<>> \/ Yields(running[1].job)

InProgress(j, how) ==
    \E i \in DOMAIN running : running[i].job = j /\ running[i].how = how

\* a ticker is due and its previous call has returned
Due(j) == j \in DOMAIN tickers /\ tickers[j].next <= now /\ ~InProgress(j, "scheduled")

\* the ticker handler starts the callback registered under idstring j
BeginFire(j) ==
    /\ ReactorFree
    /\ Due(j)
    /\ running' = <<[job |-> j, how |-> "scheduled", idx |-> 0]>> \o running
    /\ last_fired' = [last_fired EXCEPT ![j] = now]
    /\ UNCHANGED <<worldVars, effects, ret, log, now, tickers, paused, lastcall,
                   propagated, restarts>>

\* `ticker trigger <id>` starts the callback
BeginTrigger(id) ==
    /\ ReactorFree
    /\ id \in TickerIds
    /\ running' = <<[job |-> id, how |-> "manual", idx |-> 0]>> \o running
    /\ UNCHANGED <<worldVars, effects, ret, log, now, tickers, last_fired, paused,
                   lastcall, propagated, restarts>>

\* `ticker trigger all` starts the first callback of its loop
BeginTriggerAll ==
    /\ ReactorFree
    /\ running' = <<[job |-> TickerIdList[1], how |-> "manual", idx |-> 1]>> \o running
    /\ UNCHANGED <<worldVars, effects, ret, log, now, tickers, last_fired, paused,
                   lastcall, propagated, restarts>>

\* the callback started last returns; the loop of trigger_all_tickers goes on
\* to its next callback, a ticker is scheduled for the next point of its grid
Finish(inp) ==
    /\ running # <<>>
    /\ \E inv \in {running[1]} :
       \E r \in {RunCallback(inv.job, TheWorld, gametime, sessions, inp)} :
           /\ SetWorld(r.world)
           /\ log' = r.log
           /\ propagated' = (propagated \/ (r.escaped /\ inv.how = "scheduled"))
           /\ lastcall' = [job |-> inv.job, how |-> inv.how, raised |-> r.raised,
                           after_failure |-> (lastcall.job = inv.job /\ lastcall.raised
                                              /\ lastcall.how = "scheduled")]
           /\ tickers' = IF inv.how = "scheduled"
                         THEN AfterFiring(tickers, inv.job, now, r.escaped)
                         ELSE tickers
           /\ running' = IF inv.idx \in 1..(Len(TickerIdList) - 1)
                         THEN <<[job |-> TickerIdList[inv.idx + 1], how |-> "manual",
                                 idx |-> inv.idx + 1]>> \o Tail(running)
                         ELSE Tail(running)
    /\ UNCHANGED <<gametime, sessions, effects, ret, now, last_fired, paused, restarts>>

\* real time passes, also while a callback runs; a due ticker is started
\* first when the event loop is free
RunAdvance ==
    /\ now < MaxRunTime
    /\ ~(ReactorFree /\ \E j \in TickerIds : Due(j))
    /\ now' = now + 1
    /\ gametime' = AdvanceGameTime(gametime)
    /\ UNCHANGED <<chars, sessions, rooms, foods, engines, effects, ret, log,
                   tickers, last_fired, paused, lastcall, propagated, running, restarts>>

RunNext ==
    \/ \E j \in TickerIds : BeginFire(j)
    \/ \E id \in TickerIds : BeginTrigger(id)
    \/ BeginTriggerAll
    \/ \E inp \in TickInputs : Finish(inp)
    \/ RunAdvance

SpecRun == SchedInit /\ [][RunNext]_vars

\* C3: at most one callback invocation is in progress at any time, so no job
\* overlaps an invocation of itself, scheduled or manual, and invocations of
\* different jobs do not interleave; a ticker that comes due meanwhile is not
\* started.
C3_OneInvocationAtATime ==
    /\ Len(running) <= 1
    /\ \A j \in TickerIds :
          Cardinality({i \in DOMAIN running : running[i].job = j}) <= 1

\* a manual invocation of the engine callback is in progress while the engine
\* ticker is due
C3_Witness ==
    /\ Len(running) = 1
    /\ running[1].job = "engine_fuel"
    /\ running[1].how = "manual"
    /\ tickers["engine_fuel"].next <= now

\* ------------------------------------------------------------------------
\* Gathering from a room's resources (typeclasses/rooms.py:252-284, 406-469)
\* ------------------------------------------------------------------------
\* one month of every season
GatherMonths == {0, 3, 6, 9}

\* the room states that change availability, and one that does not
GatherWeathers == {{"clear"}, {"rain"}, {"storm"}, {"snow"}}

\* foraging skill of the gatherer
GatherSkills == {0, 100}

\* what the gatherer carries
GatherKits == {{}, {"pickaxe", "container"}}

\* min_skill a builder sets on wood
GatherMinSkills == {0, 10}

GatherTypes == {"wood", "stone", "water", "gold"}
GatherAmounts == {1, 3, 5}

GatherInit ==
    /\ \E month \in GatherMonths :
          gametime = [month |-> month, day |-> 3, hour |-> 9, minute |-> 0]
    /\ \E skill \in GatherSkills, kit \in GatherKits :
          chars = [c \in {"c1"} |->
                     [NewCharacter("r1", FALSE, <<>>) EXCEPT
                         !.skills = [foraging |-> skill], !.contents = kit]]
    /\ sessions = <<"c1">>
    /\ \E weather \in GatherWeathers, min_skill \in GatherMinSkills :
          rooms = [r \in {"r1"} |->
                     [NewRoom(FALSE, <<"clear">>, TRUE, [k \in {"bush"} |-> BerryNode(5)])
                        EXCEPT !.room_states = weather,
                               !.resources.wood.min_skill = min_skill]]
    /\ foods = <<>>
    /\ engines = <<>>
    /\ effects = DefaultEffects
    /\ ret = NoRet
    /\ log = <<>>
    /\ SchedIdle

\* room.extract_resource(gatherer, resource_type, amount)
Extract(cid, resource_type, amount) ==
    \E rid \in {chars[cid].location} :
    \E r \in {extract_resource(rooms[rid], chars[cid], resource_type, amount,
                               RoomSeason(gametime))} :
        /\ rooms' = [rooms EXCEPT ![rid] = r.room]
        /\ chars' = [chars EXCEPT ![cid].inbox = IF r.msg = None THEN <<>> ELSE <<r.msg>>]
        /\ ret' = [op |-> "extract", success |-> r.success, amount |-> r.amount,
                   skill_gain |-> r.skill_gain, msg |-> r.msg,
                   resource_type |-> resource_type, requested |-> amount,
                   rid |-> rid, cid |-> cid, before |-> rooms]
        /\ UNCHANGED <<gametime, sessions, foods, engines, effects, log, schedVars>>

GatherNext ==
    \/ \E cid \in DOMAIN chars, t \in GatherTypes, a \in GatherAmounts : Extract(cid, t, a)
    \/ RegenTick(0)

SpecGather == GatherInit /\ [][GatherNext]_vars

\* the resources of a room that are finite as created
FiniteTypes == {t \in DOMAIN DefaultResources : DefaultResources[t].current # -1}

\* C11: no extraction leaves a finite resource with current < 0, for every
\* amount, skill, season and weather and after any sequence of extractions;
\* a finite resource at 0 stays at 0 through every extraction.
C11_FiniteNeverNegative ==
    /\ \A rid \in DOMAIN rooms : \A t \in FiniteTypes :
          rooms[rid].resources[t].current >= 0
    /\ ret.op = "extract" =>
          \A rid \in DOMAIN rooms : \A t \in FiniteTypes :
              ret.before[rid].resources[t].current = 0 =>
                  rooms[rid].resources[t].current = 0

\* wood and stone were emptied by earlier extractions; wood was asked for
\* again, the extraction failed and left it at 0
C11_Witness ==
    /\ ret.op = "extract"
    /\ ~ret.success
    /\ ret.resource_type = "wood"
    /\ ret.before[ret.rid].resources["wood"].current = 0
    /\ rooms[ret.rid].resources["wood"].current = 0
    /\ rooms[ret.rid].resources["stone"].current = 0

\* the finite resource an extraction was asked for, before and after it
ExtractedBefore == ret.before[ret.rid].resources[ret.resource_type].current
ExtractedAfter == rooms[ret.rid].resources[ret.resource_type].current
ExtractFromFinite ==
    /\ ret.op = "extract"
    /\ ret.resource_type \in FiniteTypes

\* C12: a successful extraction from a finite resource returns
\* max(1, floor(min(requested, current) * availability * skillBonus)) and
\* lowers current by exactly the returned amount, so that the amount handed
\* to the gatherer equals the amount removed.
C12_HandedEqualsRemoved ==
    (ExtractFromFinite /\ ret.success) =>
        LET room == ret.before[ret.rid]
            availability == get_resource_availability(room, ret.resource_type,
                                                      RoomSeason(gametime))
            skillBonus == 100 + SkillLevel(chars[ret.cid], "foraging")
            asked == Min2(ret.requested, ExtractedBefore)
        IN  /\ ret.amount = Max2(1, (asked * availability * skillBonus) \div (Scale * 100))
            /\ ExtractedAfter = ExtractedBefore - ret.amount

\* scenario C: wood at 5 in summer under storm, 3 requested at skill 0,
\* returns 2 and leaves 3
C12_ScenarioC ==
    (/\ ExtractFromFinite
     /\ ret.resource_type = "wood"
     /\ ExtractedBefore = 5
     /\ ret.requested = 3
     /\ RoomSeason(gametime) = "summer"
     /\ "storm" \in rooms[ret.rid].room_states
     /\ SkillLevel(chars[ret.cid], "foraging") = 0
     /\ ret.before[ret.rid].resources["wood"].min_skill = 0)
        => (ret.success /\ ret.amount = 2 /\ ExtractedAfter = 3)

\* the three reasons of failure, read from the room and the gatherer as they
\* were when the extraction was asked for
ExtractedResource == ret.before[ret.rid].resources[ret.resource_type]
IsDepleted == ExtractedResource.current = 0
SkillTooLow ==
    /\ ExtractedResource.skill_required # None
    /\ SkillLevel(chars[ret.cid], ExtractedResource.skill_required)
          < ExtractedResource.min_skill
ToolLacking ==
    /\ ExtractedResource.tool_required # None
    /\ ExtractedResource.tool_required \notin chars[ret.cid].contents

\* C13: an extraction fails when the tool is lacking, the skill is below
\* min_skill or the finite resource is at 0; the failure is a result that
\* identifies its reason (here: at least a message naming it reaches the
\* gatherer), and the resource and every other resource are unchanged.
C13_FailureIdentifiesReason ==
    (ret.op = "extract" /\ ret.resource_type \in DOMAIN ret.before[ret.rid].resources) =>
        /\ (IsDepleted \/ SkillTooLow \/ ToolLacking) => ~ret.success
        /\ ~ret.success =>
              /\ rooms = ret.before
              /\ ret.amount = 0
              /\ ret.msg # None
              /\ ret.msg = "need_tool" => ToolLacking
              /\ ret.msg = "need_skill" => SkillTooLow

\* ------------------------------------------------------------------------
\* Food items through the spoilage ticks (world/scripts.py:404-453)
\* ------------------------------------------------------------------------
\* freshness of an item that has not yet begun to spoil
FoodFreshness == {100, 60, 55}

\* decay_rate: 0 for an item without one (the tick uses 10), and rates that
\* cross one threshold, or both thresholds, in one tick
FoodDecayRates == {0, 20, 25, 60}

NewFood(freshness, decay_rate, holder) ==
    [freshness |-> freshness, decay_rate |-> decay_rate, desc |-> "fresh",
     spoiled |-> FALSE, holder |-> holder, events |-> <<>>]

FoodInit ==
    /\ gametime = [month |-> 4, day |-> 3, hour |-> 9, minute |-> 0]
    /\ chars = [c \in {"c1"} |-> NewCharacter("r1", FALSE, <<>>)]
    /\ sessions = <<"c1">>
    /\ rooms = [r \in {"r1"} |-> NewRoom(FALSE, <<"clear">>, FALSE, NoNodes)]
    /\ \E f1 \in FoodFreshness, f2 \in FoodFreshness,
          d1 \in FoodDecayRates, d2 \in FoodDecayRates, h \in BOOLEAN :
          foods = <<NewFood(f1, d1, TRUE), NewFood(f2, d2, h)>>
    /\ engines = <<>>
    /\ effects = DefaultEffects
    /\ ret = NoRet
    /\ log = <<>>
    /\ SchedIdle

\* the food ticker calls check_food_spoilage
FoodTick(failAt) ==
    \E r \in {RunCallback("food_spoilage", TheWorld, gametime, sessions,
                            [failAt |-> failAt, rolls |-> <<>>])} :
        /\ SetWorld(r.world)
        /\ log' = r.log
        /\ ret' = [op |-> "food", raised |-> r.raised, failAt |-> failAt, before |-> foods]
        /\ UNCHANGED <<gametime, sessions, effects, schedVars>>

FoodNext == \E failAt \in 0..2 : FoodTick(failAt)

SpecFood == FoodInit /\ [][FoodNext]_vars

\* how often an event was sent to the holder of an item
RECURSIVE CountEvent(_, _)
CountEvent(events, e) ==
    IF events = <<>> THEN 0
    ELSE (IF Head(events) = e THEN 1 ELSE 0) + CountEvent(Tail(events), e)

\* the items the last tick reached before it ended
Processed == {i \in 1..Len(foods) : ret.failAt = 0 \/ i < ret.failAt}

\* the decay rate of an item: 10 when the item has none
DecayRateOf(item) == IF item.decay_rate = 0 THEN 10 ELSE item.decay_rate

C15_SpoiledOnce ==
    \A i \in 1..Len(foods) :
        /\ foods[i].spoiled <=> foods[i].freshness = 0
        /\ foods[i].holder =>
              CountEvent(foods[i].events, "spoiled")
                 = (IF foods[i].freshness = 0 THEN 1 ELSE 0)

\* ------------------------------------------------------------------------
\* Rooms through the weather ticks (world/scripts.py:219-357)
\* ------------------------------------------------------------------------
\* the two random numbers of generate_weather_for_season, in hundredths: one
\* roll in every band of every season, and both outcomes of the second roll
WeatherRolls ==
    {<<10, 10>>, <<25, 10>>, <<55, 10>>, <<55, 60>>, <<75, 10>>, <<75, 60>>,
     <<85, 10>>, <<92, 10>>, <<98, 10>>}

\* the weather a builder gave the indoor room
IndoorWeathers == {NoneWeather, <<"rain">>}

\* the weather of the outdoor room before the first tick
OutdoorWeathers == {NoneWeather, <<"clear">>}

WeatherInit ==
    /\ \E month \in GatherMonths :
          gametime = [month |-> month, day |-> 3, hour |-> 9, minute |-> 0]
    /\ chars = [c \in {"c1"} |-> NewCharacter("r1", FALSE, <<>>)]
    /\ sessions = <<"c1">>
    /\ \E w1 \in OutdoorWeathers, w2 \in IndoorWeathers :
          rooms = [r \in {"r1", "r2"} |->
                     IF r = "r1" THEN NewRoom(FALSE, w1, FALSE, NoNodes)
                     ELSE NewRoom(TRUE, w2, FALSE, NoNodes)]
    /\ foods = <<>>
    /\ engines = <<>>
    /\ effects = DefaultEffects
    /\ ret = NoRet
    /\ log = <<>>
    /\ SchedIdle

\* the weather ticker calls update_global_weather
WeatherTick(rolls, failAt) ==
    \E r \in {RunCallback("weather_update", TheWorld, gametime, sessions,
                            [failAt |-> failAt, rolls |-> rolls])} :
        /\ SetWorld(r.world)
        /\ log' = r.log
        /\ ret' = [op |-> "weather", raised |-> r.raised, failAt |-> failAt,
                   before |-> rooms]
        /\ UNCHANGED <<gametime, sessions, effects, schedVars>>

WeatherNext ==
    \E p \in WeatherRolls, failAt \in 0..2 :
        WeatherTick([rid \in DOMAIN rooms |-> p], failAt)

SpecWeather == WeatherInit /\ [][WeatherNext]_vars

\* C16: a weather tick changes outdoor rooms only: the stored weather and the
\* room states of every indoor room are the same after the tick as before,
\* and no announcement is sent to it.
C16_IndoorUntouched ==
    ret.op = "weather" =>
        \A rid \in DOMAIN rooms : ret.before[rid].indoor =>
            /\ rooms[rid].weather = ret.before[rid].weather
            /\ rooms[rid].room_states = ret.before[rid].room_states
            /\ rooms[rid].outbox = <<>>

\* a tick that completed changed the outdoor room and passed over an indoor
\* room whose builder had given it rain
C16_Witness ==
    /\ ret.op = "weather"
    /\ ~ret.raised
    /\ rooms["r1"].weather # ret.before["r1"].weather
    /\ rooms["r1"].outbox # <<>>
    /\ rooms["r2"].indoor
    /\ rooms["r2"].weather = <<"rain">>

\* the tags of a stored weather
WeatherTags(weather) ==
    IF weather = NoneWeather THEN {} ELSE {weather[i] : i \in 1..Len(weather)}

\* the outdoor rooms the last weather tick reached before it ended
WeatherProcessed ==
    {rid \in DOMAIN rooms :
        /\ ~ret.before[rid].indoor
        /\ \E i \in 1..Len(RoomOrder) :
              RoomOrder[i] = rid /\ (ret.failAt = 0 \/ i < ret.failAt)}

\* the announcements the priority new storm > new rain > new snow > new fog >
\* cleared-to-clear allows for a change from old to new
PriorityAnnouncements(old, new) ==
    IF "storm" \in new \ old THEN {"storm_rolls_in"}
    ELSE IF "rain" \in new \ old THEN {"rain_begins"}
    ELSE IF "snow" \in new \ old THEN {"snow_begins"}
    ELSE IF "fog" \in new \ old THEN {"fog_rolls_in"}
    ELSE {"storm_passes", "weather_clears"}

\* C17: when a weather tick changes the tag set of an outdoor room, exactly
\* one announcement is sent to the room, chosen by the priority new storm >
\* new rain > new snow > new fog > cleared-to-clear; when the tag set is
\* unchanged, none is sent.
C17_OneAnnouncementPerChange ==
    ret.op = "weather" =>
        \A rid \in WeatherProcessed :
            LET old == WeatherTags(ret.before[rid].weather)
                new == WeatherTags(rooms[rid].weather)
            IN  IF new # old
                THEN /\ Len(rooms[rid].outbox) = 1
                     /\ rooms[rid].outbox[1] \in PriorityAnnouncements(old, new)
                ELSE rooms[rid].outbox = <<>>

\* ------------------------------------------------------------------------
\* The ticker handler's store through server starts (world/scripts.py:653-717)
\* In this specification tickers is the store itself: a set of registrations
\* [idstring, interval, persistent, next], interval and next in TimeUnits.
\* ------------------------------------------------------------------------
\* server starts and real time covered in one behaviour
MaxStarts == 2
MaxStoreTime == 2

\* the store keeps one ticker per (interval, idstring, persistent)
StoreKey(reg) == <<reg.idstring, reg.interval, reg.persistent>>

TICKER_HANDLER_clear_keeps(store) == store

\* scripts.py:661: TICKER_HANDLER.clear() removes every ticker
TICKER_HANDLER_clear(store) == {}

\* scripts.py:664-714: TICKER_HANDLER.add(interval, callback, idstring, persistent)
TICKER_HANDLER_add(store, reg) ==
    {r \in store : StoreKey(r) # StoreKey(reg)} \cup {reg}

\* the six add() calls of initialize_all_tickers, in their order
RECURSIVE AddTickers(_, _, _)
AddTickers(store, t, i) ==
    IF i > Len(TickerIdList) THEN store
    ELSE LET id == TickerIdList[i]
             added == initialize_all_tickers(t)[id]
         IN  AddTickers(TICKER_HANDLER_add(store,
                            [idstring |-> id, interval |-> added.interval,
                             persistent |-> added.persistent, next |-> added.next]),
                        t, i + 1)

\* initialize_all_tickers on a store that already holds tickers
InitializeStore(store, t) == AddTickers(TICKER_HANDLER_clear(store), t, 1)

\* tickers the store may hold when the server starts: saved by an earlier run
\* with another interval, under an id that is no longer used, not persistent,
\* or the same as one of the six
SavedTickers ==
    {[idstring |-> "survival_update", interval |-> 1, persistent |-> TRUE, next |-> 1],
     [idstring |-> "survival_update", interval |-> 2, persistent |-> TRUE, next |-> 1],
     [idstring |-> "engine_fuel", interval |-> 1, persistent |-> FALSE, next |-> 1],
     [idstring |-> "weather_update", interval |-> 6, persistent |-> TRUE, next |-> 2],
     [idstring |-> "old_job", interval |-> 2, persistent |-> TRUE, next |-> 2]}

StoreInit ==
    /\ gametime = [month |-> 4, day |-> 3, hour |-> 9, minute |-> 0]
    /\ chars = [c \in {"c1"} |-> NewCharacter("r1", FALSE, <<>>)]
    /\ sessions = <<"c1">>
    /\ rooms = [r \in {"r1"} |-> NewRoom(FALSE, <<"clear">>, FALSE, NoNodes)]
    /\ foods = <<>>
    /\ engines = <<>>
    /\ effects = DefaultEffects
    /\ ret = NoRet
    /\ log = <<>>
    /\ now = 0
    /\ tickers \in SUBSET SavedTickers
    /\ last_fired = [j \in TickerIds |-> NeverFired]
    /\ paused = {}
    /\ lastcall = NoCall
    /\ propagated = FALSE
    /\ running = <<>>
    /\ restarts = 0

\* at_server_start calls initialize_all_tickers
StartServer ==
    /\ restarts < MaxStarts
    /\ restarts' = restarts + 1
    /\ tickers' = InitializeStore(tickers, now)
    /\ ret' = [op |-> "initialize", before |-> tickers]
    /\ UNCHANGED <<worldVars, effects, log, now, last_fired, paused, lastcall,
                   propagated, running>>

\* real time passes
StoreAdvance ==
    /\ now < MaxStoreTime
    /\ now' = now + 1
    /\ UNCHANGED <<worldVars, effects, ret, log, tickers, last_fired, paused, lastcall,
                   propagated, running, restarts>>

StoreNext == StartServer \/ StoreAdvance

SpecTickers == StoreInit /\ [][StoreNext]_vars

\* C19: once initialize_all_tickers has been called, once or several times
\* and whatever the store held before, exactly six tickers are registered:
\* survival_update (600 s), weather_update (900 s), resource_regen (3600 s),
\* food_spoilage (1800 s), seasonal_events (21600 s), engine_fuel (300 s),
\* each once and persistent; no id is registered twice.
C19_ExactlySixTickers ==
    restarts > 0 =>
        LET seconds == [survival_update |-> 600, weather_update |-> 900,
                        resource_regen |-> 3600, food_spoilage |-> 1800,
                        seasonal_events |-> 21600, engine_fuel |-> 300]
        IN  /\ Cardinality(tickers) = 6
            /\ {r.idstring : r \in tickers} = DOMAIN seconds
            /\ \A r \in tickers :
                  /\ r.persistent
                  /\ r.interval * TimeUnit = seconds[r.idstring]
            /\ \A r1 \in tickers, r2 \in tickers :
                  r1.idstring = r2.idstring => r1 = r2

\* the second call found the six tickers of the first call in the store and
\* registered the six anew
C19_Witness ==
    /\ restarts = 2
    /\ ret.op = "initialize"
    /\ Cardinality(ret.before) = 6
    /\ \A r \in ret.before : r.idstring \in TickerIds
    /\ \E r \in tickers : r.idstring = "engine_fuel" /\ r.next > 1

\* ------------------------------------------------------------------------
\* The hunger gauge through hours of decay and its descriptions
\* (typeclasses/characters.py:114-133, world/tests/test_characters.py:456-497)
\* ------------------------------------------------------------------------
HungerDescs_95 ==
    << <<19, "starving">>, <<39, "very hungry">>, <<59, "hungry">>,
       <<79, "peckish">>, <<94, "satisfied">>, <<100, "full">> >>

\* descs of the hunger gauge, ascending: (upper bound, label)
HungerDescs ==
    << <<19, "starving">>, <<39, "very hungry">>, <<59, "hungry">>,
       <<79, "peckish">>, <<99, "satisfied">>, <<100, "full">> >>

\* the gauge's desc(): the label of the first entry whose upper bound is
\* >= current; NoLabel when the table has no such entry
NoLabel == "none"

trait_desc(g, descs) ==
    LET hits == {i \in 1..Len(descs) : g.current <= descs[i][1] * Scale}
    IN  IF hits = {} THEN NoLabel
        ELSE descs[CHOOSE i \in hits : \A k \in hits : i <= k][2]

\* one game hour of decay: trait.current += trait.rate
ApplyRate(g) == SetCurrent(g, g.current + g.rate)

\* hunger rates: the rate of the gauge as created, and slower and faster ones
DecayRates == {-2 * Scale, -1 * Scale, -3 * Scale}

\* amounts a meal restores
MealAmounts == {5 * Scale, 30 * Scale}

DecayInit ==
    /\ gametime = [month |-> 4, day |-> 3, hour |-> 9, minute |-> 0]
    /\ \E rate \in DecayRates :
          chars = [c \in {"c1"} |->
                     [NewCharacter("r1", FALSE, <<>>) EXCEPT !.traits.hunger.rate = rate]]
    /\ sessions = <<"c1">>
    /\ rooms = [r \in {"r1"} |-> NewRoom(FALSE, <<"clear">>, FALSE, NoNodes)]
    /\ foods = <<>>
    /\ engines = <<>>
    /\ effects = DefaultEffects
    /\ ret = NoRet
    /\ log = <<>>
    /\ SchedIdle

\* the currents before the last consecutive hours of decay, at most three
DecayTrail(current) ==
    IF ret.op = "rate"
    THEN LET all == Append(ret.trail, current)
         IN  IF Len(all) > 3 THEN Tail(all) ELSE all
    ELSE <<current>>

\* the rate of the hunger gauge is applied for one game hour
DecayHour(cid) ==
    /\ chars' = [chars EXCEPT ![cid].traits.hunger = ApplyRate(@)]
    /\ ret' = [op |-> "rate", cid |-> cid,
               trail |-> DecayTrail(chars[cid].traits.hunger.current)]
    /\ UNCHANGED <<gametime, sessions, rooms, foods, engines, effects, log, schedVars>>

\* a meal: modify_trait("hunger", amount)
Meal(cid, amount) ==
    \E r \in {modify_trait(chars[cid], "hunger", amount)} :
        /\ chars' = [chars EXCEPT ![cid] = r.char]
        /\ ret' = [op |-> "meal", cid |-> cid, trail |-> <<>>]
        /\ UNCHANGED <<gametime, sessions, rooms, foods, engines, effects, log, schedVars>>

DecayNext ==
    \/ \E cid \in DOMAIN chars : DecayHour(cid)
    \/ \E cid \in DOMAIN chars, amount \in MealAmounts : Meal(cid, amount)

SpecDecay == DecayInit /\ [][DecayNext]_vars

\* the hunger gauge of the character the last operation acted on, the gauge
\* with another current, and the labels of the table
Hunger == chars["c1"].traits.hunger
HungerAt(current) == [Hunger EXCEPT !.current = current]
HungerLabels == {HungerDescs[i][2] : i \in 1..Len(HungerDescs)}

\* the last hour of decay took the description from "full" to "satisfied"
FullToSatisfied ==
    /\ trait_desc(HungerAt(ret.trail[Len(ret.trail)]), HungerDescs) = "full"
    /\ trait_desc(Hunger, HungerDescs) = "satisfied"

\* the hours of scenario A: from current 100 at rate -2.0, up to three hours
InScenarioA ==
    /\ ret.op = "rate"
    /\ Hunger.rate = -2 * Scale
    /\ ret.trail[1] = 100 * Scale

\* the gauge is at 94 after three hours, and every current between min and
\* max has a label
ScenarioA_Rest ==
    /\ (InScenarioA /\ Len(ret.trail) = 3) => Hunger.current = 94 * Scale
    /\ Hunger.min <= Hunger.current /\ Hunger.current <= GaugeMax(Hunger)
    /\ trait_desc(Hunger, HungerDescs) \in HungerLabels

\* C20 as stated: a hunger gauge at 100 with rate -2.0 is at 94 after three
\* game hours, its description goes from "full" to "satisfied" exactly in the
\* hour in which current crosses 95, and every current in [min, max] has the
\* label of the first threshold whose upper bound is >= current.
C20_ScenarioA_AsStated ==
    /\ ScenarioA_Rest
    /\ InScenarioA =>
          (FullToSatisfied <=>
              (ret.trail[Len(ret.trail)] > 95 * Scale /\ Hunger.current <= 95 * Scale))

\* C20, amended: the same, with the description going from "full" to
\* "satisfied" exactly in the hour in which current crosses 99, that is in
\* the first hour, from 100 to 98.
C20_ScenarioA ==
    /\ ScenarioA_Rest
    /\ InScenarioA =>
          /\ FullToSatisfied <=>
                (ret.trail[Len(ret.trail)] > 99 * Scale /\ Hunger.current <= 99 * Scale)
          /\ FullToSatisfied <=> Len(ret.trail) = 1

\* the third hour of scenario A: 100, 98, 96, then 94, "satisfied" throughout
\* the last hour
C20_Witness ==
    /\ InScenarioA
    /\ ret.trail = <<100 * Scale, 98 * Scale, 96 * Scale>>
    /\ Hunger.current = 94 * Scale
    /\ trait_desc(Hunger, HungerDescs) = "satisfied"
    /\ trait_desc(HungerAt(96 * Scale), HungerDescs) = "satisfied"

\* ------------------------------------------------------------------------
\* Cooldowns
\* ------------------------------------------------------------------------
\* the default skill of an action type
skill_map(action_type) ==
    CASE action_type = "gather" -> "foraging"
      [] action_type = "craft" -> "crafting"
      [] action_type = "hunt" -> "hunting"
      [] action_type = "trade" -> "trading"
      [] action_type = "repair" -> "engineering"
      [] action_type = "rest" -> "survival"
      [] OTHER -> "survival"

\* Character.get_cooldown_modifier: 0.5 + (0.5 * (100 - skill_level) / 100),
\* each operation rounded as the interpreter rounds it
get_cooldown_modifier(char, action_type, skill_name) ==
    LET name == IF skill_name = None THEN skill_map(action_type) ELSE skill_name
    IN  IF name \notin DOMAIN char.skills THEN FloatOne
        ELSE FloatAdd(FloatHalf,
                      FloatDivInt(FloatMul(FloatHalf, FloatOfInt(100 - char.skills[name])),
                                  100))

PhysicalActions == {"gather", "hunt", "craft"}

\* the modifier of apply_cooldown after the constitution bonus
CooldownModifier(char, cooldown_name, skill_name) ==
    The({IF cooldown_name \in PhysicalActions /\ char.stats.constitution > 10
         THEN FloatMul(modifier,
                       FloatSub(FloatOne,
                                FloatMin(FloatMul(FloatOfInt(char.stats.constitution - 10),
                                                  Float001),
                                         Float020)))
         ELSE modifier :
            modifier \in {get_cooldown_modifier(char, cooldown_name, skill_name)}})

\* actual_duration of Character.apply_cooldown
apply_cooldown(char, cooldown_name, base_duration, skill_name) ==
    FloatToInt(FloatMul(FloatOfInt(base_duration),
                        CooldownModifier(char, cooldown_name, skill_name)))

\* CooldownHandler.add
CooldownAdd(cooldowns, cooldown_name, seconds, t) ==
    [n \in DOMAIN cooldowns \cup {cooldown_name} |->
        IF n = cooldown_name THEN t + seconds ELSE cooldowns[n]]

CooldownSkills == 0..100
CooldownConstitutions == {8, 10, 14, 35}
CooldownNames == {"gather", "rest"}
CooldownBases == {180, 300}

\* a character whose foraging and survival skills and constitution were
\* trained before the run, with no cooldown running
CooldownInit ==
    /\ \E skill \in CooldownSkills, con \in CooldownConstitutions :
          chars = [c \in {"c1"} |->
                     [stats |-> [constitution |-> con],
                      cooldowns |-> <<>>] @@
                     [NewCharacter("r1", FALSE, <<>>) EXCEPT
                         !.skills = [foraging |-> skill, survival |-> skill]]]
    /\ gametime = [month |-> 0, day |-> 0, hour |-> 0, minute |-> 0]
    /\ sessions = <<"c1">>
    /\ rooms = [r \in {"r1"} |-> NewRoom(FALSE, NoneWeather, FALSE, <<>>)]
    /\ effects = None
    /\ foods = <<>>
    /\ engines = <<>>
    /\ ret = NoRet
    /\ log = <<>>
    /\ now = 0
    /\ tickers = {}
    /\ last_fired = <<>>
    /\ paused = {}
    /\ lastcall = None
    /\ propagated = FALSE
    /\ running = FALSE
    /\ restarts = 0

\* Character.apply_cooldown, called by an action handler
ApplyCooldown(cid, cooldown_name, base_duration, skill_name) ==
    /\ \E actual_duration \in
             {apply_cooldown(chars[cid], cooldown_name, base_duration, skill_name)} :
          /\ chars' = [chars EXCEPT ![cid].cooldowns =
                          CooldownAdd(@, cooldown_name, actual_duration, now)]
          /\ ret' = [op |-> "cooldown", cid |-> cid, cooldown_name |-> cooldown_name,
                     base_duration |-> base_duration, skill_name |-> skill_name,
                     actual_duration |-> actual_duration]
    /\ UNCHANGED <<gametime, sessions, rooms, effects, foods, engines, log, now,
                   tickers, last_fired, paused, lastcall, propagated, running, restarts>>

\* the skill the caller names: the gather tests pass "foraging", CmdRest
\* passes "survival"
CallerSkill(cooldown_name) == IF cooldown_name = "rest" THEN "survival" ELSE "foraging"

CooldownNext ==
    \E cid \in DOMAIN chars, cooldown_name \in CooldownNames,
       base_duration \in CooldownBases :
        ApplyCooldown(cid, cooldown_name, base_duration, CallerSkill(cooldown_name))

SpecCooldown == CooldownInit /\ [][CooldownNext]_vars

AppliedCooldown == ret.op = "cooldown"

\* the skill level apply_cooldown read, and the constitution points that count
CooldownSkill ==
    chars[ret.cid].skills[IF ret.skill_name = None THEN skill_map(ret.cooldown_name)
                          ELSE ret.skill_name]

StatBonusPercent ==
    IF ret.cooldown_name \in PhysicalActions
    THEN Max2(0, Min2(20, chars[ret.cid].stats.constitution - 10))
    ELSE 0

\* floor(base * (0.5 + 0.5 * (100 - skill) / 100) * (1 - bonus)) in whole
\* numbers: the modifiers are (200 - skill) / 200 and (100 - percent) / 100
FloorOfProduct(base_duration, skill, percent) ==
    (base_duration * (200 - Max2(0, Min2(100, skill))) * (100 - percent)) \div 20000

\* C18: apply_cooldown sets and returns floor(baseDuration * skillModifier *
\* statModifier), with skillModifier = 0.5 + 0.5 * (100 - clamp(skill, 0, 100))
\* / 100 and statModifier = 1 - clamp(statBonusRatio, 0, 0.20), the
\* constitution bonus counting for physical actions only; gather with base 300
\* at skill 100 and no bonus gives 150, and the result never increases with
\* skill.
C18_FloorOfProduct ==
    AppliedCooldown =>
        /\ ret.actual_duration =
              FloorOfProduct(ret.base_duration, CooldownSkill, StatBonusPercent)
        /\ chars[ret.cid].cooldowns[ret.cooldown_name] = now + ret.actual_duration

\* what does hold of the code: the cooldown set is the value returned
CooldownSetIsReturned ==
    AppliedCooldown =>
        chars[ret.cid].cooldowns[ret.cooldown_name] = now + ret.actual_duration

\* Scenario D: gather, base 300, foraging 100, constitution not above 10
CooldownScenarioD ==
    (/\ AppliedCooldown
     /\ ret.cooldown_name = "gather"
     /\ ret.base_duration = 300
     /\ CooldownSkill = 100
     /\ StatBonusPercent = 0) => ret.actual_duration = 150

\* one more skill point never lengthens the cooldown just applied
CooldownMonotone ==
    (AppliedCooldown /\ CooldownSkill > 0) =>
        ret.actual_duration <=
            apply_cooldown([chars[ret.cid] EXCEPT
                               !.skills = [n \in DOMAIN @ |-> CooldownSkill - 1]],
                           ret.cooldown_name, ret.base_duration, ret.skill_name)


\* ------------------------------------------------------------------------
\* The wind branch and the season
\* ------------------------------------------------------------------------
\* the wind factor in tenths if the branch took effect in winter only
WinterWindFactor == IF WindActive /\ EnvSeason = "winter" THEN 12 ELSE 10

\* C21: the wind branch multiplies the fatigue modifier by 1.2 only when the
\* weather contains wind or storm, the character has no wind protection and
\* the season is winter; in spring, summer and autumn wind or storm weather
\* contributes no wind factor to the fatigue modifier.
C21_WindOnlyInWinter ==
    (EnvComputed /\ ~EnvRoom.indoor) =>
        effects.fatigue_rate_mod =
            Times(Times(Times(Times(Times(Scale, ColdFactor), HeatFatigueFactor),
                              RainFactor), SnowFactor), WinterWindFactor)

\* ------------------------------------------------------------------------
\* Weather generation as a function of the season and the two rolls
\* ------------------------------------------------------------------------
\* the four seasons and a name SEASONAL_WEATHER does not hold
GenerateSeasons == {"winter", "spring", "summer", "autumn", "unknown"}

\* random.random() in hundredths, and second rolls on both sides of 0.3 and 0.5
GenerateRolls == 0..99
GenerateRolls2 == {0, 29, 30, 49, 50, 99}

GenerateInit ==
    /\ gametime = [month |-> 0, day |-> 0, hour |-> 0, minute |-> 0]
    /\ chars = [c \in {"c1"} |-> NewCharacter("r1", FALSE, <<>>)]
    /\ sessions = <<"c1">>
    /\ rooms = [r \in {"r1"} |-> NewRoom(FALSE, NoneWeather, FALSE, NoNodes)]
    /\ effects = DefaultEffects
    /\ foods = <<>>
    /\ engines = <<>>
    /\ \E season \in GenerateSeasons, roll \in GenerateRolls, roll2 \in GenerateRolls2 :
          ret = [op |-> "season", season |-> season, roll |-> roll, roll2 |-> roll2]
    /\ log = <<>>
    /\ SchedIdle

\* a caller (the weather tick, `ticker test weather`, a test) generates the
\* weather of the season; the two numbers are what random.random() returns
Generate ==
    /\ ret.op = "season"
    /\ ret' = [op |-> "generate", season |-> ret.season, roll |-> ret.roll,
               roll2 |-> ret.roll2,
               weather |-> generate_weather_for_season(ret.season, ret.roll, ret.roll2)]
    /\ UNCHANGED <<worldVars, effects, log, schedVars>>

GenerateNext == Generate

SpecGenerate == GenerateInit /\ [][GenerateNext]_vars

Generated == ret.op = "generate"

GeneratedSet == {ret.weather[i] : i \in 1..Len(ret.weather)}

WeatherSets ==
    {{"clear"}, {"cloudy"}, {"fog"}, {"rain"}, {"snow"},
     {"rain", "storm", "wind"}, {"snow", "wind"}}

\* C22: every weather set generate_weather_for_season returns, for every
\* season (an unknown one included) and every pair of rolls, is one of
\* {clear}, {cloudy}, {fog}, {rain}, {snow}, {rain, storm, wind},
\* {snow, wind}: never empty, storm only together with rain and wind, and a
\* directly rolled storm always yields {rain, storm, wind}.
C22_WeatherSets ==
    Generated =>
        /\ GeneratedSet \in WeatherSets
        /\ Len(ret.weather) = Cardinality(GeneratedSet)
        /\ "storm" \in GeneratedSet => {"rain", "wind"} \subseteq GeneratedSet
        /\ RollWeatherType(ret.season, ret.roll) = "storm" =>
              GeneratedSet = {"rain", "storm", "wind"}

\* a storm rolled directly, with a second roll that would not upgrade rain
C22_Witness ==
    /\ Generated
    /\ RollWeatherType(ret.season, ret.roll) = "storm"
    /\ ret.roll2 >= 30
    /\ ret.weather = <<"rain", "storm", "wind">>

\* ------------------------------------------------------------------------
\* Resource availability as a function of season and weather
\* ------------------------------------------------------------------------
\* room states: each weather the generator builds, and a state that is no
\* weather
AvailStates ==
    {{"clear"}, {"cloudy"}, {"fog"}, {"rain"}, {"snow"},
     {"rain", "storm", "wind"}, {"snow", "wind"}, {"dark"}}

\* the four default resources, one a builder added without seasonal
\* modifiers, and one the room does not have
AvailTypes == {"wood", "stone", "plants", "water", "clay", "gold"}

ClayResource ==
    [base_amount |-> 4, current |-> 4, skill_required |-> "foraging",
     min_skill |-> 0, tool_required |-> None, seasonal_modifier |-> <<>>]

AvailInit ==
    /\ \E month \in 0..11 :
          gametime = [month |-> month, day |-> 3, hour |-> 9, minute |-> 0]
    /\ chars = [c \in {"c1"} |-> NewCharacter("r1", FALSE, <<>>)]
    /\ sessions = <<"c1">>
    /\ \E states \in AvailStates :
          rooms = [r \in {"r1"} |->
                     [NewRoom(FALSE, NoneWeather, FALSE, NoNodes) EXCEPT
                         !.room_states = states,
                         !.resources = [clay |-> ClayResource] @@ @]]
    /\ foods = <<>>
    /\ engines = <<>>
    /\ effects = DefaultEffects
    /\ ret = NoRet
    /\ log = <<>>
    /\ SchedIdle

\* location.get_resource_availability(res_type), as the forage and search
\* commands call it
CheckAvailability(rid, resource_type) ==
    /\ ret' = [op |-> "availability", rid |-> rid, resource_type |-> resource_type,
               availability |-> get_resource_availability(rooms[rid], resource_type,
                                                          RoomSeason(gametime))]
    /\ UNCHANGED <<worldVars, effects, log, schedVars>>

AvailNext ==
    \E rid \in DOMAIN rooms, resource_type \in AvailTypes :
        CheckAvailability(rid, resource_type)

SpecAvail == AvailInit /\ [][AvailNext]_vars

AvailChecked == ret.op = "availability" /\ ret.resource_type \in DOMAIN rooms[ret.rid].resources

AvailWeather == get_current_weather(rooms[ret.rid])

\* seasonalModifier[season], 1.0 when absent, in units of 1/Scale
AvailSeasonal ==
    LET mods == rooms[ret.rid].resources[ret.resource_type].seasonal_modifier
        season == RoomSeason(gametime)
    IN  IF season \in DOMAIN mods THEN (Scale * mods[season]) \div 10 ELSE Scale

\* the weather penalty in tenths
AvailPenalty ==
    IF "storm" \in AvailWeather \/ "snow" \in AvailWeather THEN 5
    ELSE IF "rain" \in AvailWeather THEN 8 ELSE 10

\* C23: availability is seasonalModifier[season] (1.0 when absent) times a
\* weather penalty of 0.5 under storm or snow, 0.8 under rain and 1.0
\* otherwise, except for water, which under rain or snow is doubled instead
\* of penalized: it equals seasonalModifier[season] * 2.
C23_WaterDoubledNotPenalized ==
    AvailChecked =>
        ret.availability =
            IF ret.resource_type = "water" /\ ("rain" \in AvailWeather \/ "snow" \in AvailWeather)
            THEN AvailSeasonal * 2
            ELSE (AvailSeasonal * AvailPenalty) \div 10

\* what the code does: the penalty applies to every type, and water under
\* rain or snow is doubled on top of it
AvailPenaltyThenDouble ==
    AvailChecked =>
        ret.availability =
            ((AvailSeasonal * AvailPenalty) \div 10)
                * (IF ret.resource_type = "water"
                      /\ ("rain" \in AvailWeather \/ "snow" \in AvailWeather)
                   THEN 2 ELSE 1)

\* ------------------------------------------------------------------------
\* Seasonal maxima of resource nodes
\* ------------------------------------------------------------------------
\* a herb thicket and a grove whose type has no seasonal modifier
HerbNode(base_max) ==
    [resource_type |-> "herbs", max_amount |-> base_max, current_amount |-> 0,
     regen_rate |-> 60, base_max_amount |-> base_max]

GroveNode ==
    [resource_type |-> "wood", max_amount |-> 10, current_amount |-> 10,
     regen_rate |-> 1, base_max_amount |-> 10]

\* (month, day): the day before a season starts, its first day, and a day
\* inside a season
SeasonDates == {<<10, 29>>, <<5, 29>>, <<8, 29>>, <<9, 0>>, <<6, 15>>}

SeasonInit ==
    /\ \E date \in SeasonDates :
          gametime = [month |-> date[1], day |-> date[2], hour |-> 0, minute |-> 0]
    /\ chars = [c \in {"c1"} |-> NewCharacter("r1", FALSE, <<>>)]
    /\ sessions = <<"c1">>
    /\ \E current \in {10}, base_max \in SeasonalBases \ {5} :
          rooms = [r \in {"r1", "r2"} |->
                     IF r = "r1"
                     THEN NewRoom(FALSE, <<"clear">>, TRUE,
                                  [k \in {"bush", "herbs", "grove"} |->
                                      CASE k = "bush" -> BerryNode(current)
                                        [] k = "herbs" -> HerbNode(base_max)
                                        [] OTHER -> GroveNode])
                     ELSE NewRoom(TRUE, NoneWeather, FALSE, NoNodes)]
    /\ foods = <<>>
    /\ engines = <<>>
    /\ effects = DefaultEffects
    /\ ret = NoRet
    /\ log = <<>>
    /\ SchedIdle

\* update_seasonal_resources(season) called on its own, as the tests do
UpdateSeasonal(season) ==
    /\ rooms' = update_seasonal_resources(rooms, season)
    /\ ret' = [op |-> "update_seasonal", season |-> season, before |-> rooms]
    /\ UNCHANGED <<gametime, chars, sessions, foods, engines, effects, log, schedVars>>

SeasonNext ==
    \/ \E season \in DOMAIN SEASONS : UpdateSeasonal(season)
    \/ \E failAt \in 0..1 : SeasonalTick(failAt)
    \/ RegenTick(0)
    \/ AdvanceDay

SpecSeason == SeasonInit /\ [][SeasonNext]_vars

\* seasonalModifier[season] of a node's type in tenths, 1.0 when absent
ModifierTenths(node, season) ==
    IF season \in DOMAIN SeasonalResources
       /\ node.resource_type \in DOMAIN SeasonalResources[season]
    THEN SeasonalResources[season][node.resource_type] ELSE 10

\* floor(baseMax * seasonalModifier[season])
FloorOfSeasonalMax(node, season) ==
    (DictGet(node.base_max_amount, 5) * ModifierTenths(node, season)) \div 10

MaxFromBase(season) ==
    \A rid \in RegenRooms : \A k \in DOMAIN rooms[rid].resource_nodes :
        rooms[rid].resource_nodes[k].max_amount =
            FloorOfSeasonalMax(rooms[rid].resource_nodes[k], season)

MaxUnchanged ==
    \A rid \in RegenRooms : \A k \in DOMAIN rooms[rid].resource_nodes :
        rooms[rid].resource_nodes[k].max_amount = ret.before[rid].resource_nodes[k].max_amount

AtSeasonBoundary == gametime.day = 0 /\ SeasonStarting(gametime.month) # None

\* C24: a seasonal recomputation sets each node's max to
\* floor(baseMax * seasonalModifier[newSeason]), modifier 1.0 when the type
\* has no entry, from the base maximum and never from the previous max (so
\* twice equals once, and winter then summer equals summer alone); it is
\* applied at a season boundary and not by regular ticks.
C24_MaxFromBase ==
    /\ ret.op = "update_seasonal" => MaxFromBase(ret.season)
    /\ (ret.op = "seasonal" /\ ~ret.raised) =>
          IF AtSeasonBoundary THEN MaxFromBase(SeasonStarting(gametime.month))
          ELSE MaxUnchanged
    /\ ret.op = "regen" => MaxUnchanged

\* what holds of the code: a second recomputation for the same season
\* changes nothing, and a recomputation after one for another season gives
\* what it gives alone
SeasonalIdempotent ==
    ret.op = "update_seasonal" =>
        /\ update_seasonal_resources(rooms, ret.season) = rooms
        /\ \A other \in DOMAIN SEASONS :
              update_seasonal_resources(update_seasonal_resources(ret.before, other),
                                        ret.season) = rooms

\* regular ticks and seasonal checks inside a season leave every max alone
SeasonalOnlyAtBoundary ==
    /\ (ret.op = "seasonal" /\ ~ret.raised /\ ~AtSeasonBoundary) => MaxUnchanged
    /\ ret.op = "regen" => MaxUnchanged

\* ------------------------------------------------------------------------
\* Spoiled food and the maintenance pass of a cold start
\* (server/conf/at_server_startstop.py:241-277)
\* food items here also carry [key, spoiled_date, marked_at]: spoiled_date is
\* item.db.spoiled_date (NoKey when the attribute was never set); marked_at
\* is no attribute of the item but the real time at which the decay tick
\* tagged it spoiled, kept for the statements below
\* ------------------------------------------------------------------------
\* timedelta(days=7)
RETENTION_DAYS == 7

\* real days that pass in one behaviour
MaxKeepDays == 9

\* one real day in units of the clock
DayUnits == 86400 \div TimeUnit

\* at_server_startstop.py:259-261, one item tagged spoiled: "old" when it is
\* to be deleted, "raise" when None is compared with a datetime. db_hasattr
\* is what hasattr(item.db, 'spoiled_date') gives for an attribute that was
\* never set
MaintenanceOne(item, week_ago, db_hasattr) ==
    IF item.spoiled_date # NoKey
    THEN IF item.spoiled_date < week_ago THEN "old" ELSE "keep"
    ELSE IF db_hasattr THEN "raise" ELSE "keep"

\* the loop of lines 258-261 from item i on: raised, or the items collected
RECURSIVE MaintenanceLoop(_, _, _, _, _)
MaintenanceLoop(items, i, week_ago, db_hasattr, old_spoiled) ==
    IF i > Len(items) THEN [raised |-> FALSE, old_spoiled |-> old_spoiled]
    ELSE IF ~items[i].spoiled
    THEN MaintenanceLoop(items, i + 1, week_ago, db_hasattr, old_spoiled)
    ELSE \* tagged spoiled: in the query of lines 248-251
         CASE MaintenanceOne(items[i], week_ago, db_hasattr) = "raise" ->
                 [raised |-> TRUE, old_spoiled |-> old_spoiled]
           [] MaintenanceOne(items[i], week_ago, db_hasattr) = "old" ->
                 MaintenanceLoop(items, i + 1, week_ago, db_hasattr, old_spoiled \cup {i})
           [] OTHER ->
                 MaintenanceLoop(items, i + 1, week_ago, db_hasattr, old_spoiled)

RECURSIVE WithoutItems(_, _, _)
WithoutItems(items, i, gone) ==
    IF i > Len(items) THEN <<>>
    ELSE (IF i \in gone THEN <<>> ELSE <<items[i]>>) \o WithoutItems(items, i + 1, gone)

\* _perform_maintenance_tasks at real time t: the items that remain, and
\* whether the exception reached at_server_cold_start
perform_maintenance_tasks(items, t, db_hasattr) ==
    LET r == MaintenanceLoop(items, 1, t - RETENTION_DAYS * DayUnits, db_hasattr, {})
    IN  [foods |-> IF r.raised THEN items ELSE WithoutItems(items, 1, r.old_spoiled),
         raised |-> r.raised]

\* an item of the larder of this specification
KeptFood(key, freshness, spoiled, spoiled_date) ==
    [key |-> key, spoiled_date |-> spoiled_date, marked_at |-> NoKey] @@
    [NewFood(freshness, 20, FALSE) EXCEPT
        !.spoiled = spoiled, !.desc = IF spoiled THEN "spoiled" ELSE @]

\* a loaf about to spoil and, or not, a crust that was tagged spoiled before
\* the run began, with or without a date a builder gave it
KeepInit ==
    /\ gametime = [month |-> 4, day |-> 3, hour |-> 9, minute |-> 0]
    /\ chars = [c \in {"c1"} |-> NewCharacter("r1", FALSE, <<>>)]
    /\ sessions = <<"c1">>
    /\ rooms = [r \in {"r1"} |-> NewRoom(FALSE, <<"clear">>, FALSE, NoNodes)]
    /\ \E freshness \in {20, 60}, crust \in {"none", "dated", "undated"}, first \in BOOLEAN :
          LET loaf == <<KeptFood("loaf", freshness, FALSE, NoKey)>>
              other == CASE crust = "dated" -> <<KeptFood("crust", 0, TRUE, 0)>>
                         [] crust = "undated" -> <<KeptFood("crust", 0, TRUE, NoKey)>>
                         [] OTHER -> <<>>
          IN  foods = IF first THEN loaf \o other ELSE other \o loaf
    /\ engines = <<>>
    /\ effects = DefaultEffects
    /\ ret = NoRet
    /\ log = <<>>
    /\ SchedIdle

\* marked_at of the items the tick has just tagged
StampSpoiled(before, after, t) ==
    [i \in 1..Len(after) |->
        IF after[i].spoiled /\ ~before[i].spoiled
        THEN [after[i] EXCEPT !.marked_at = t] ELSE after[i]]

\* the food ticker calls check_food_spoilage
KeepTick ==
    \E r \in {RunCallback("food_spoilage", TheWorld, gametime, sessions,
                            [failAt |-> 0, rolls |-> <<>>])} :
        /\ foods' = StampSpoiled(foods, r.world.foods, now)
        /\ log' = r.log
        /\ ret' = [op |-> "food", raised |-> r.raised, before |-> foods]
        /\ UNCHANGED <<gametime, chars, sessions, rooms, engines, effects, schedVars>>

\* a real day passes
KeepDay ==
    /\ now < MaxKeepDays * DayUnits
    /\ now' = now + DayUnits
    /\ ret' = [op |-> "day"]
    /\ UNCHANGED <<worldVars, effects, log, tickers, last_fired, paused, lastcall,
                   propagated, running, restarts>>

\* at_server_cold_start: the maintenance pass, its exception caught and logged
ColdStart(db_hasattr) ==
    \E r \in {perform_maintenance_tasks(foods, now, db_hasattr)} :
        /\ foods' = r.foods
        /\ log' = IF r.raised THEN <<"Error during cold start">>
                  ELSE <<"Maintenance tasks completed">>
        /\ ret' = [op |-> "maintenance", raised |-> r.raised, before |-> foods]
        /\ UNCHANGED <<gametime, chars, sessions, rooms, engines, effects, schedVars>>

KeepNext ==
    \/ KeepTick
    \/ KeepDay
    \/ \E db_hasattr \in BOOLEAN : ColdStart(db_hasattr)

SpecKeep == KeepInit /\ [][KeepNext]_vars

FoodKeys(items) == {items[i].key : i \in 1..Len(items)}

\* the real time since which an item is spoiled, NoKey when none is known
SpoiledSince(item) == IF item.marked_at # NoKey THEN item.marked_at ELSE item.spoiled_date

PastRetention(item) ==
    SpoiledSince(item) # NoKey /\ now - SpoiledSince(item) > RETENTION_DAYS * DayUnits

\* C25: every item the decay tick has marked spoiled is removed by the
\* maintenance pass once it has been spoiled for longer than the retention
\* window of 7 real days; no item is removed before the window has elapsed,
\* and the food-decay tick itself never removes an item.
C25_SpoiledRemovedAfterWindow ==
    /\ ret.op = "maintenance" =>
          /\ \A i \in 1..Len(foods) :
                ~(foods[i].marked_at # NoKey /\ PastRetention(foods[i]))
          /\ \A i \in 1..Len(ret.before) :
                ret.before[i].key \notin FoodKeys(foods) => PastRetention(ret.before[i])
    /\ ret.op = "food" => FoodKeys(foods) = FoodKeys(ret.before)

\* what holds of the code: the pass removes only items that carry a
\* spoiled_date older than the window, the tick removes nothing, and an item
\* the tick has tagged is never removed
KeepRemovesOnlyDated ==
    /\ ret.op = "maintenance" =>
          \A i \in 1..Len(ret.before) :
              ret.before[i].key \notin FoodKeys(foods) =>
                  /\ ret.before[i].spoiled_date # NoKey
                  /\ PastRetention(ret.before[i])
    /\ ret.op = "food" => FoodKeys(foods) = FoodKeys(ret.before)
    /\ "loaf" \in FoodKeys(foods)

\* the pass does remove a dated item
KeepRemovedCrust ==
    ~(ret.op = "maintenance" /\ "crust" \in FoodKeys(ret.before) /\ "crust" \notin FoodKeys(foods))

\* ------------------------------------------------------------------------
\* Steam engines under fuel ticks
\* ------------------------------------------------------------------------
\* fuel of the first engine: the fixture's 10, a fuller tank, and less than
\* any rate
EngineFuels == {3, 10, 60}
EngineRates == {2, 7}

\* the engine of the tests' fixtures
FixtureEngine(is_running, fuel_amount, fuel_consumption_rate) ==
    [is_running |-> is_running, fuel_amount |-> fuel_amount,
     fuel_consumption_rate |-> fuel_consumption_rate,
     fuel_capacity |-> 100, max_pressure |-> 100, current_pressure |-> 50,
     outbox |-> <<>>]

EngineInit ==
    /\ gametime = [month |-> 4, day |-> 3, hour |-> 9, minute |-> 0]
    /\ chars = [c \in {"c1"} |-> NewCharacter("r1", FALSE, <<>>)]
    /\ sessions = <<"c1">>
    /\ rooms = [r \in {"r1"} |-> NewRoom(FALSE, <<"clear">>, FALSE, NoNodes)]
    /\ foods = <<>>
    /\ \E fuel \in EngineFuels, rate \in EngineRates, second \in BOOLEAN :
          engines = <<FixtureEngine(TRUE, fuel, rate), FixtureEngine(second, 40, 7)>>
    /\ effects = DefaultEffects
    /\ ret = NoRet
    /\ log = <<>>
    /\ SchedIdle

\* the engine ticker calls update_steam_engines
EngineTick(failAt) ==
    \E r \in {RunCallback("engine_fuel", TheWorld, gametime, sessions,
                            [failAt |-> failAt, rolls |-> <<>>])} :
        /\ SetWorld(r.world)
        /\ log' = r.log
        /\ ret' = [op |-> "engine", raised |-> r.raised, failAt |-> failAt,
                   before |-> engines]
        /\ UNCHANGED <<gametime, sessions, effects, schedVars>>

EngineNext == \E failAt \in 0..2 : EngineTick(failAt)

SpecEngine == EngineInit /\ [][EngineNext]_vars

EngineTicked == ret.op = "engine" /\ ~ret.raised

\* fuel bookkeeping of one engine over the last tick, pressure left aside
EngineFuelStep(old, new) ==
    IF ~old.is_running THEN new = old
    ELSE IF old.fuel_amount >= old.fuel_consumption_rate
    THEN /\ new.is_running
         /\ new.fuel_amount = old.fuel_amount - old.fuel_consumption_rate
    ELSE /\ ~new.is_running
         /\ new.fuel_amount = 0
         /\ new.current_pressure = 0

\* C26: after any number of engine-fuel ticks every engine has fuel_amount
\* >= 0; a running engine with fuel_amount >= its consumption rate loses
\* exactly that rate per tick and gets current_pressure =
\* floor(max_pressure * fuel_amount / fuel_capacity); a running engine with
\* less fuel than the rate is stopped with is_running false, fuel_amount 0
\* and current_pressure 0; an engine that is not running is left unchanged.
C26_FuelAndPressure ==
    /\ \A i \in 1..Len(engines) : engines[i].fuel_amount >= 0
    /\ EngineTicked =>
          \A i \in 1..Len(engines) :
              /\ EngineFuelStep(ret.before[i], engines[i])
              /\ (ret.before[i].is_running /\ engines[i].is_running) =>
                    engines[i].current_pressure =
                        (engines[i].max_pressure * engines[i].fuel_amount)
                            \div engines[i].fuel_capacity

\* what holds of the code: the fuel bookkeeping, for every engine and tick
EngineFuelAccounting ==
    /\ \A i \in 1..Len(engines) : engines[i].fuel_amount >= 0
    /\ EngineTicked =>
          \A i \in 1..Len(engines) : EngineFuelStep(ret.before[i], engines[i])


\* ------------------------------------------------------------------------
\* Decay rates over survival ticks in a changing environment
\* ------------------------------------------------------------------------
\* midwinter night, midsummer noon, an autumn evening
RateTimes == {[month |-> 0, day |-> 3, hour |-> 2, minute |-> 0],
              [month |-> 7, day |-> 3, hour |-> 12, minute |-> 0],
              [month |-> 9, day |-> 3, hour |-> 19, minute |-> 0]}

RateWeathers == {<<"clear">>, <<"rain", "storm", "wind">>, <<"snow">>}

RateInit ==
    /\ \E gt \in RateTimes : gametime = gt
    /\ chars = [c \in {"c1"} |-> NewCharacter("r1", FALSE, <<>>)]
    /\ sessions = <<"c1">>
    /\ rooms = [r \in {"r1", "r2"} |->
                  IF r = "r1" THEN NewRoom(FALSE, <<"clear">>, FALSE, NoNodes)
                  ELSE NewRoom(TRUE, NoneWeather, FALSE, NoNodes)]
    /\ foods = <<>>
    /\ engines = <<>>
    /\ effects = DefaultEffects
    /\ ret = NoRet
    /\ log = <<>>
    /\ SchedIdle

\* the survival ticker calls update_all_survival; `effects` keeps what
\* get_environmental_effects returned for the character in this call
RateTick(failAt) ==
    \E r \in {RunCallback("survival_update", TheWorld, gametime, sessions,
                            [failAt |-> failAt, rolls |-> <<>>])} :
        /\ SetWorld(r.world)
        /\ log' = r.log
        /\ effects' = IF r.raised THEN effects
                      ELSE get_environmental_effects(chars["c1"], rooms, gametime)
        /\ ret' = [op |-> "rate_tick", raised |-> r.raised, before |-> chars]
        /\ UNCHANGED <<gametime, sessions, schedVars>>

\* the weather of the outdoor room changes between two ticks
RateWeather(weather) ==
    /\ rooms["r1"].weather # weather
    /\ rooms' = [rooms EXCEPT !["r1"].weather = weather]
    /\ ret' = [op |-> "weather", raised |-> FALSE, before |-> chars]
    /\ UNCHANGED <<gametime, chars, sessions, foods, engines, effects, log, schedVars>>

\* the season and the hour change between two ticks
RateTime(gt) ==
    /\ gametime # gt
    /\ gametime' = gt
    /\ ret' = [op |-> "time", raised |-> FALSE, before |-> chars]
    /\ UNCHANGED <<chars, sessions, rooms, foods, engines, effects, log, schedVars>>

\* the character walks into the other room
RateMove(cid) ==
    /\ chars' = [chars EXCEPT ![cid].location = IF @ = "r1" THEN "r2" ELSE "r1"]
    /\ ret' = [op |-> "move", raised |-> FALSE, before |-> chars]
    /\ UNCHANGED <<gametime, sessions, rooms, foods, engines, effects, log, schedVars>>

RateNext ==
    \/ \E failAt \in 0..1 : RateTick(failAt)
    \/ \E weather \in RateWeathers : RateWeather(weather)
    \/ \E gt \in RateTimes : RateTime(gt)
    \/ \E cid \in DOMAIN chars : RateMove(cid)

SpecRates == RateInit /\ [][RateNext]_vars

RateTicked == ret.op = "rate_tick" /\ ~ret.raised

RateOf(trait_name) == chars["c1"].traits[trait_name].rate

RatesChangedBefore ==
    \E n \in {"hunger", "thirst", "fatigue"} :
        ret.before["c1"].traits[n].rate # InitialTraits[n].rate

\* C27: after a survival tick each of the hunger, thirst and fatigue rates
\* is its base rate (-2.0, -3.0, -1.0) times the modifier that tick computed,
\* whatever the rates were before the tick; when the tick computed no effect
\* (all modifiers 1.0) the rates are the base rates again.
C27_RatesFromBase ==
    RateTicked =>
        /\ RateOf("hunger") = (-2) * effects.hunger_rate_mod
        /\ RateOf("thirst") = (-3) * effects.thirst_rate_mod
        /\ RateOf("fatigue") = (-1) * effects.fatigue_rate_mod
        /\ (effects = DefaultEffects =>
              \A n \in {"hunger", "thirst", "fatigue"} :
                  RateOf(n) = InitialTraits[n].rate)

\* a tick with a modifier other than 1.0 follows ticks that had left other
\* rates than the base rates
C27_Witness ==
    /\ RateTicked
    /\ RatesChangedBefore
    /\ effects.fatigue_rate_mod # Scale
    /\ RateOf("fatigue") # ret.before["c1"].traits.fatigue.rate

\* a tick without effects follows ticks that had left other rates
RatesRestored ==
    /\ RateTicked
    /\ RatesChangedBefore
    /\ effects = DefaultEffects


\* ------------------------------------------------------------------------
\* One entity failing inside a tick (world/scripts.py:413-453)
\* ------------------------------------------------------------------------
\* item.db.desc of a food item: the text its prototype gave it, or None for
\* an item created without a description
BatchDescs == {"fresh", None}

BatchInit ==
    /\ gametime = [month |-> 4, day |-> 3, hour |-> 9, minute |-> 0]
    /\ chars = [c \in {"c1"} |-> NewCharacter("r1", FALSE, <<>>)]
    /\ sessions = <<"c1">>
    /\ rooms = [r \in {"r1"} |-> NewRoom(FALSE, <<"clear">>, FALSE, NoNodes)]
    /\ \E f1 \in FoodFreshness, f2 \in FoodFreshness,
          d1 \in FoodDecayRates, d2 \in FoodDecayRates,
          desc1 \in BatchDescs, desc2 \in BatchDescs :
          foods = <<[NewFood(f1, d1, TRUE) EXCEPT !.desc = desc1],
                    [NewFood(f2, d2, TRUE) EXCEPT !.desc = desc2],
                    NewFood(100, 20, TRUE)>>
    /\ engines = <<>>
    /\ effects = DefaultEffects
    /\ ret = NoRet
    /\ log = <<>>
    /\ SchedIdle

\* the food ticker calls check_food_spoilage; nothing fails but the code
\* of the callback itself
BatchTick ==
    \E r \in {RunCallback("food_spoilage", TheWorld, gametime, sessions,
                            [failAt |-> 0, rolls |-> <<>>])} :
        /\ SetWorld(r.world)
        /\ log' = r.log
        /\ ret' = [op |-> "batch", raised |-> r.raised, before |-> foods]
        /\ UNCHANGED <<gametime, sessions, effects, schedVars>>

BatchNext == BatchTick

SpecBatch == BatchInit /\ [][BatchNext]_vars

BatchTicked == ret.op = "batch"

\* the tick has aged item i
BatchAged(i) ==
    foods[i].freshness = Max2(0, ret.before[i].freshness - DecayRateOf(ret.before[i]))

\* the tick has left item i as it was
BatchUntouched(i) == foods[i] = ret.before[i]

\* C28: a food tick in which the processing of one item fails still ages
\* every other item: after the tick every item has its freshness lowered by
\* its decay rate, whether or not an item before it raised an exception.
C28_FailureDoesNotStopTheRest ==
    BatchTicked => \A i \in 1..Len(foods) : BatchAged(i)

\* the items are processed in the order of the query: what a tick has aged
\* is a prefix of the items (all of them when nothing was raised), and the
\* items after the prefix are untouched
BatchInOrder ==
    BatchTicked =>
        \E k \in 0..Len(foods) :
            /\ \A i \in 1..k : BatchAged(i)
            /\ \A i \in (k + 1)..Len(foods) : BatchUntouched(i)
            /\ (~ret.raised => k = Len(foods))

\* an item raised an exception and a later item had freshness to lose
BatchFailedEarly ==
    /\ BatchTicked
    /\ ret.raised
    /\ BatchUntouched(3)


\* ------------------------------------------------------------------------
\* The two representations of a room's weather (world/scripts.py:248-267,
\* typeclasses/rooms.py:170-185, 273-282)
\* ------------------------------------------------------------------------
\* the weather the survival tick reads for a room, as a set of tags
SurvivalWeather(room) == WeatherTags(ReadRoomWeather(room))

\* availability of wood under the seasonal modifier alone
SeasonalAvailability(room, resource_type, season) ==
    (Scale * room.resources[resource_type].seasonal_modifier[season]) \div 10

\* C29: after every weather tick that completed, for every outdoor room, the
\* weather the survival tick reads (room.db.weather) is the weather
\* Room.get_current_weather() reports, and in a room where the tick has
\* generated a storm the availability of wood is half its seasonal value.
C29_WeatherRepresentationsAgree ==
    (ret.op = "weather" /\ ~ret.raised) =>
        \A rid \in DOMAIN rooms : ~rooms[rid].indoor =>
            /\ SurvivalWeather(rooms[rid]) = get_current_weather(rooms[rid])
            /\ "storm" \in SurvivalWeather(rooms[rid]) =>
                  get_resource_availability(rooms[rid], "wood", RoomSeason(gametime))
                     = SeasonalAvailability(rooms[rid], "wood", RoomSeason(gametime)) \div 2

\* the room states of a room are what at_object_creation left, whatever the
\* weather ticks have generated
WeatherStatesFrozen ==
    \A rid \in DOMAIN rooms : rooms[rid].room_states = {"clear"}

\* the stored weather of every outdoor room a completed tick has reached is
\* the weather that tick generated for it
WeatherStoredIsGenerated ==
    (ret.op = "weather" /\ ~ret.raised) =>
        \A rid \in DOMAIN rooms : ~rooms[rid].indoor =>
            SurvivalWeather(rooms[rid]) \in WeatherSets

\* a completed tick has generated a storm in the outdoor room
WeatherStormGenerated ==
    /\ ret.op = "weather"
    /\ ~ret.raised
    /\ rooms["r1"].weather = <<"rain", "storm", "wind">>


\* ------------------------------------------------------------------------
\* Worn clothing as the survival tick and as the character see it
\* (world/scripts.py:119-129, typeclasses/characters.py:262-312,
\* typeclasses/objects.py:277-295, 401-510)
\* worn item: [warmth, warmth_value, weather_protection, covered]; warmth is
\* db.warmth (0: not set), covered whether another worn item covers it
\* ------------------------------------------------------------------------
\* SurvivalClothing.at_object_creation, then the attributes of the subclass
SurvivalClothing(warmth_value, weather_protection) ==
    [warmth |-> 0, warmth_value |-> warmth_value,
     weather_protection |-> weather_protection, covered |-> FALSE]

WinterCloak == SurvivalClothing(25, <<"snow", "wind", "rain">>)
RainCoat == SurvivalClothing(10, <<"rain", "wind">>)
WoolenHat == SurvivalClothing(8, <<"wind">>)

\* the coat of test_clothing_protection: a plain Object with db.warmth
TestCoat ==
    [warmth |-> 25, warmth_value |-> 0,
     weather_protection |-> <<"rain", "wind", "snow">>, covered |-> FALSE]

WearItems == {WinterCloak, RainCoat, WoolenHat, TestCoat}

\* items worn at the same time
MaxWorn == 2

\* Character.get_worn_clothes
get_worn_clothes(char, exclude_covered) ==
    SelectSeq(char.clothing, LAMBDA item : ~(exclude_covered /\ item.covered))

RECURSIVE SumWarmthValue(_)
SumWarmthValue(items) ==
    IF items = <<>> THEN 0
    ELSE OrDefault(Head(items).warmth_value, 0) + SumWarmthValue(Tail(items))

\* Character.get_total_warmth
get_total_warmth(char) == SumWarmthValue(get_worn_clothes(char, TRUE))

\* Character.has_weather_protection
has_weather_protection(char, weather_type) ==
    \E i \in 1..Len(get_worn_clothes(char, TRUE)) :
        InList(weather_type, get_worn_clothes(char, TRUE)[i].weather_protection)

WearTimes == {[month |-> 0, day |-> 3, hour |-> 2, minute |-> 0],
              [month |-> 7, day |-> 3, hour |-> 12, minute |-> 0]}

\* has_clothing: whether the character object has a `clothing` attribute
\* whose all() returns the worn items (the typeclass defines none, the test
\* patches one in)
WearInit ==
    /\ \E gt \in WearTimes : gametime = gt
    /\ \E hc \in BOOLEAN : chars = [c \in {"c1"} |-> NewCharacter("r1", hc, <<>>)]
    /\ sessions = <<"c1">>
    /\ \E weather \in RateWeathers :
          rooms = [r \in {"r1"} |-> NewRoom(FALSE, weather, FALSE, NoNodes)]
    /\ foods = <<>>
    /\ engines = <<>>
    /\ effects = DefaultEffects
    /\ ret = NoRet
    /\ log = <<>>
    /\ SchedIdle

\* the character puts on an item; it goes over what is already worn
Wear(cid, item, covers) ==
    /\ Len(chars[cid].clothing) < MaxWorn
    /\ \A i \in 1..Len(chars[cid].clothing) :
          [chars[cid].clothing[i] EXCEPT !.covered = FALSE] # item
    /\ chars' = [chars EXCEPT ![cid].clothing =
                    Append([i \in 1..Len(@) |->
                               [@[i] EXCEPT !.covered = @ \/ covers]], item)]
    /\ ret' = [op |-> "wear", cid |-> cid]
    /\ UNCHANGED <<gametime, sessions, rooms, foods, engines, effects, log, schedVars>>

\* the character takes off the item put on last; what it covered shows again
Remove(cid) ==
    /\ chars[cid].clothing # <<>>
    /\ chars' = [chars EXCEPT ![cid].clothing =
                    [i \in 1..(Len(@) - 1) |-> [@[i] EXCEPT !.covered = FALSE]]]
    /\ ret' = [op |-> "remove", cid |-> cid]
    /\ UNCHANGED <<gametime, sessions, rooms, foods, engines, effects, log, schedVars>>

WearNext ==
    \/ \E cid \in DOMAIN chars, item \in WearItems, covers \in BOOLEAN :
          Wear(cid, item, covers)
    \/ \E cid \in DOMAIN chars : Remove(cid)
    \/ \E cid \in DOMAIN chars : ComputeEffects(cid)

SpecWear == WearInit /\ [][WearNext]_vars

\* the protection tags the character's methods report
WornProtection(char) ==
    [w \in {"rain", "wind", "snow"} |-> has_weather_protection(char, w)]

\* C30: the effects the survival tick computes for a character are those of
\* the total warmth and the protection tags of the character's worn,
\* uncovered clothing (get_total_warmth(), has_weather_protection()): a worn
\* item with warmth w lowers the cold deficit by w, and a worn item that
\* protects against rain, snow or wind removes that penalty.
C30_TickUsesWornClothing ==
    EnvComputed =>
        effects = EffectsWith(EnvChar, rooms, gametime,
                              get_total_warmth(EnvChar), WornProtection(EnvChar))

\* the warmth the tick uses is db.warmth of the items `clothing.all()`
\* returns: nothing for clothing of the SurvivalClothing classes
WearWarmthOfTick ==
    (EnvComputed /\ \A i \in 1..Len(EnvChar.clothing) : EnvChar.clothing[i].warmth = 0) =>
        effects = EffectsWith(EnvChar, rooms, gametime, 0, ClothingProtection(EnvChar))

\* with a `clothing` attribute and nothing covered the protection tags of
\* the tick are those of has_weather_protection
WearProtectionAgrees ==
    (/\ EnvComputed
     /\ EnvChar.has_clothing
     /\ \A i \in 1..Len(EnvChar.clothing) : ~EnvChar.clothing[i].covered) =>
        ClothingProtection(EnvChar) = WornProtection(EnvChar)

\* the effects of a winter night were computed for a character in a cloak
WearCloakInWinter ==
    /\ EnvComputed
    /\ EnvChar.has_clothing
    /\ EnvChar.clothing = <<WinterCloak>>
    /\ EnvSeason = "winter"
    /\ InList("freezing", effects.messages)

====
